---- MODULE Spec2Model ----
(***************************************************************************)
(* A model of the node.js resource proxy (src/node/bin/proxy.js with its   *)
(* Configuration module, src/unnamed/part_000, and ProjectUtilities.js).   *)
(*                                                                         *)
(* Strings are modelled as sequences of tokens.  A token is either one of  *)
(* the delimiter characters the code searches for ("/", "?", "&", ":",     *)
(* ".", " ") or a maximal run of other characters ("proxy", "geo", ...).   *)
(* The inputs are chosen so that no word token is a substring of another,  *)
(* which makes token-level search agree with character-level search.       *)
(* Indexes are 0-based, as in JavaScript; -1 is "not found".               *)
(*                                                                         *)
(* UrlFlexParser.js and RateMeter.js are required by proxy.js but are not  *)
(* part of the sources at hand: their operators are modelled from the      *)
(* specification (sections 4.1, 4.2 and 4.3).                               *)
(*                                                                         *)
(* Intermediate values are passed as operator arguments rather than bound  *)
(* with LET, which keeps their evaluation linear.                          *)
(***************************************************************************)
EXTENDS Integers, Sequences, FiniteSets, TLC

\* ------------------------------------------------------------ bounds
\* Number of requests the HTTP front end accepts in one behaviour.
MaxRequests == 2
\* The clock (seconds) stops advancing here.
MaxTime == 60
\* Number of admission checks and waits in one run over a single bucket.
MaxChecks == 9
\* Number of isUnderRate calls under way at once on a single bucket.
MaxCalls == 3

\* ------------------------------------------------- JavaScript strings
Min(a, b) == IF a <= b THEN a ELSE b
Max(a, b) == IF a >= b THEN a ELSE b

EMPTY == << >>
STAR == <<"*">>
\* The JavaScript null, as a value comparable with strings.
NULL == <<"<null>">>
Slash == <<"/">>
Dot == <<".">>
Colon == <<":">>
QuestionMark == <<"?">>
SchemeMark == <<":", "/", "/">>

\* s.substr(start) and s.substr(start, length)
substrFrom(s, start) == SubSeq(s, Max(start, 0) + 1, Len(s))
substr(s, start, length) == SubSeq(s, Max(start, 0) + 1, Min(Len(s), Max(start, 0) + length))

\* s.charAt(i): the empty string when i is out of range
charAt(s, i) == IF i >= 0 /\ i < Len(s) THEN <<s[i + 1]>> ELSE EMPTY

matchAt(s, needle, i) ==
    /\ i >= 0
    /\ i + Len(needle) <= Len(s)
    /\ SubSeq(s, i + 1, i + Len(needle)) = needle

\* s.indexOf(needle, fromIndex): a negative fromIndex counts as 0
RECURSIVE indexOfFrom(_, _, _)
indexOfFrom(s, needle, fromIndex) ==
    IF Max(fromIndex, 0) + Len(needle) > Len(s) THEN -1
    ELSE IF matchAt(s, needle, Max(fromIndex, 0)) THEN Max(fromIndex, 0)
    ELSE indexOfFrom(s, needle, Max(fromIndex, 0) + 1)

indexOf(s, needle) == indexOfFrom(s, needle, 0)

\* s.lastIndexOf(needle, fromIndex)
RECURSIVE lastIndexOfFrom(_, _, _)
lastIndexOfFrom(s, needle, fromIndex) ==
    IF fromIndex < 0 THEN -1
    ELSE IF matchAt(s, needle, fromIndex) THEN fromIndex
    ELSE lastIndexOfFrom(s, needle, fromIndex - 1)

lastIndexOf(s, needle) == lastIndexOfFrom(s, needle, Len(s) - Len(needle))

\* s.replace(needle, replacement) with a string pattern: the first occurrence only
replaceAt(s, needle, replacement, i) ==
    IF i < 0 THEN s
    ELSE substr(s, 0, i) \o replacement \o substrFrom(s, i + Len(needle))

replace(s, needle, replacement) == replaceAt(s, needle, replacement, indexOf(s, needle))

\* Upper-case word tokens of the inputs and their lower-case forms.
lowerToken(t) ==
    CASE t = "HTTP" -> "http"
      [] t = "HTTPS" -> "https"
      [] t = "WWW" -> "www"
      [] t = "GEO" -> "geo"
      [] t = "Gateway" -> "gateway"
      [] t = "PROXY" -> "proxy"
      [] t = "TRUE" -> "true"
      [] t = "True" -> "true"
      [] t = "FALSE" -> "false"
      [] OTHER -> t

toLowerCase(s) == [i \in 1..Len(s) |-> lowerToken(s[i])]

RECURSIVE trimLeft(_)
trimLeft(s) == IF s # EMPTY /\ Head(s) = " " THEN trimLeft(Tail(s)) ELSE s

RECURSIVE trimRight(_)
trimRight(s) ==
    IF s # EMPTY /\ s[Len(s)] = " " THEN trimRight(SubSeq(s, 1, Len(s) - 1)) ELSE s

trim(s) == trimRight(trimLeft(s))

\* s.split(sep) for a one-character separator
RECURSIVE split(_, _)
splitAt(s, sep, i) ==
    IF i < 0 THEN <<s>>
    ELSE <<substr(s, 0, i)>> \o split(substrFrom(s, i + 1), sep)

split(s, sep) == splitAt(s, sep, indexOf(s, <<sep>>))

\* ---------------------------------------------------- ProjectUtilities
startsWith(subject, needle) ==
    indexOf(toLowerCase(subject), toLowerCase(needle)) = 0

\* ------------------------------------------------------ UrlFlexParser
\* URL parts: protocol, hostname, port, path, query; "*" is "match any".
orStar(s) == IF s = EMPTY THEN STAR ELSE s

RECURSIVE stripLeadingSlashes(_)
stripLeadingSlashes(s) ==
    IF s # EMPTY /\ Head(s) = "/" THEN stripLeadingSlashes(Tail(s)) ELSE s

\* The host (with its port) and the path of a path that starts with the host.
peelHostAt(peeled, cut) ==
    IF cut < 0 THEN [hostport |-> peeled, path |-> EMPTY]
    ELSE [hostport |-> substr(peeled, 0, cut), path |-> substrFrom(peeled, cut)]

peelHost(peeled) == peelHostAt(peeled, indexOf(peeled, Slash))

\* An empty hostname is peeled off the leading path segment.
splitHostPath(authority, path) ==
    IF authority # EMPTY THEN [hostport |-> authority, path |-> path]
    ELSE peelHost(stripLeadingSlashes(path))

\* The part of a URL after "://", cut at the first "/".
splitAuthorityAt(beforeQuery, slash) ==
    IF slash < 0 THEN splitHostPath(beforeQuery, EMPTY)
    ELSE splitHostPath(substr(beforeQuery, 0, slash), substrFrom(beforeQuery, slash))

hostnameOf(hostport, colon) == IF colon < 0 THEN hostport ELSE substr(hostport, 0, colon)

portOf(hostport, colon) == IF colon < 0 THEN EMPTY ELSE substrFrom(hostport, colon + 1)

\* Empty fields become "*".
fixedURLParts(protocol, hostPath, query) ==
    [protocol |-> orStar(protocol),
     hostname |-> orStar(hostnameOf(hostPath.hostport, indexOf(hostPath.hostport, Colon))),
     port     |-> orStar(portOf(hostPath.hostport, indexOf(hostPath.hostport, Colon))),
     path     |-> orStar(hostPath.path),
     query    |-> orStar(query)]

\* Without a scheme the URL is parsed as a path.
partsBeforeQuery(protocol, hasScheme, beforeQuery, query) ==
    fixedURLParts(protocol,
                  IF hasScheme
                  THEN splitAuthorityAt(beforeQuery, indexOf(beforeQuery, Slash))
                  ELSE splitHostPath(EMPTY, beforeQuery),
                  query)

partsAtQuery(protocol, hasScheme, rest, q) ==
    IF q < 0 THEN partsBeforeQuery(protocol, hasScheme, rest, EMPTY)
    ELSE partsBeforeQuery(protocol, hasScheme, substr(rest, 0, q), substrFrom(rest, q + 1))

partsAtScheme(url, k) ==
    IF k >= 0
    THEN partsAtQuery(substr(url, 0, k), TRUE, substrFrom(url, k + 3),
                      indexOf(substrFrom(url, k + 3), QuestionMark))
    ELSE partsAtQuery(EMPTY, FALSE, url, indexOf(url, QuestionMark))

\* Normalise a possibly partial URL.
parseAndFixURLParts(url) == partsAtScheme(url, indexOf(url, SchemeMark))

\* The segment-wise match that tells upper case from lower case.
domainSegmentsMatchExactCase(p, c) ==
    /\ Len(p) = Len(c)
    /\ \A i \in 1..Len(p) : p[i] = STAR \/ p[i] = c[i]

\* Segment-wise match of two domain names; a "*" pattern segment matches any
\* one segment.
domainSegmentsMatch(p, c) ==
    /\ Len(p) = Len(c)
    /\ \A i \in 1..Len(p) :
          p[i] = STAR \/ toLowerCase(p[i]) = toLowerCase(c[i])

testDomainsMatch(pattern, candidate) ==
    domainSegmentsMatch(split(pattern, "."), split(candidate, "."))

testProtocolsMatch(pattern, candidate) ==
    \/ pattern = STAR
    \/ candidate = STAR
    \/ toLowerCase(pattern) = toLowerCase(candidate)

testPortsMatch(pattern, candidate) ==
    pattern = STAR \/ candidate = STAR \/ pattern = candidate

\* Does the request (URL parts) match the service rule?
parsedUrlPartsMatch(request, rule) ==
    /\ testDomainsMatch(rule.hostname, request.hostname)
    /\ testProtocolsMatch(rule.protocol, request.protocol)
    /\ testPortsMatch(rule.port, request.port)
    /\ IF rule.matchAll THEN request.path = rule.path
       ELSE startsWith(request.path, rule.path)

\* The serialized allowed referrer, used as the rate-meter key.
fullReferrerURLFromParts(parts) ==
    parts.protocol \o SchemeMark \o parts.hostname
        \o (IF charAt(parts.path, 0) = Slash THEN parts.path ELSE Slash \o parts.path)

\* The separators that carry the protocol of the proxied URL.
EmbeddedSeparators ==
    << [sep |-> <<"/", "http", "/">>,  protocol |-> <<"http">>],
       [sep |-> <<"/", "https", "/">>, protocol |-> <<"https">>],
       [sep |-> <<"/", "*", "/">>,     protocol |-> STAR] >>

QuerySeparators ==
    << [sep |-> <<"?", "http", ":", "/", "/">>,  protocol |-> <<"http">>],
       [sep |-> <<"?", "https", ":", "/", "/">>, protocol |-> <<"https">>],
       [sep |-> <<"&", "http", ":", "/", "/">>,  protocol |-> <<"http">>],
       [sep |-> <<"&", "https", ":", "/", "/">>, protocol |-> <<"https">>] >>

NoSeparator == [sep |-> EMPTY, protocol |-> STAR]

\* The separator of the family that occurs first in the URL (0: none occurs).
earliestSeparator(url, family, found) ==
    IF found = {} THEN 0
    ELSE CHOOSE i \in found :
            \A j \in found : indexOf(url, family[i].sep) <= indexOf(url, family[j].sep)

firstSeparator(url, family) ==
    earliestSeparator(url, family,
                      {i \in 1..Len(family) : indexOf(url, family[i].sep) >= 0})

\* The first configured listen URI that occurs in the string (0: none does).
RECURSIVE firstListenUriFrom(_, _, _)
firstListenUriFrom(s, listenUriList, i) ==
    IF i > Len(listenUriList) THEN 0
    ELSE IF lastIndexOf(s, listenUriList[i]) >= 0 THEN i
    ELSE firstListenUriFrom(s, listenUriList, i + 1)

firstListenUri(s, listenUriList) == firstListenUriFrom(s, listenUriList, 1)

\* Where the listen path ends when the URL carries no separator.
listenEnd(url, listenUriList, l) ==
    IF l = 0 THEN Len(url)
    ELSE lastIndexOf(url, listenUriList[l]) + Len(listenUriList[l])

NullRequestParts ==
    [isNull |-> TRUE, listenPath |-> EMPTY, proxyPath |-> EMPTY,
     protocol |-> STAR, query |-> EMPTY]

\* The target cut at its last "?".
requestPartsAtLastQuery(listenPath, target, protocol, mark) ==
    [isNull |-> FALSE,
     listenPath |-> listenPath,
     proxyPath |-> IF mark < 0 THEN target
                   ELSE substr(target, 0, lastIndexOf(target, QuestionMark)),
     protocol |-> protocol,
     query |-> IF mark < 0 THEN EMPTY
               ELSE substrFrom(target, lastIndexOf(target, QuestionMark) + 1)]

\* The target is cut at its first "?" into proxyPath and query.
requestPartsAtQuery(listenPath, target, protocol, mark) ==
    [isNull |-> FALSE,
     listenPath |-> listenPath,
     proxyPath |-> IF mark < 0 THEN target ELSE substr(target, 0, mark),
     protocol |-> protocol,
     query |-> IF mark < 0 THEN EMPTY ELSE substrFrom(target, mark + 1)]

\* Null for an empty URL and, under mustMatch, for a listen path that holds
\* no configured listen URI.
requestPartsOf(url, listenUriList, mustMatch, listenPath, target, protocol) ==
    IF url = EMPTY \/ (mustMatch /\ firstListenUri(listenPath, listenUriList) = 0)
    THEN NullRequestParts
    ELSE requestPartsAtQuery(listenPath, target, protocol, indexOf(target, QuestionMark))

\* The target taken as it stands after the separator, without the "/" in front.
requestPartsAtSeparatorBare(url, listenUriList, mustMatch, hit, at) ==
    requestPartsOf(url, listenUriList, mustMatch,
                   substr(url, 0, at), substrFrom(url, at + Len(hit.sep)),
                   hit.protocol)

requestPartsAtSeparator(url, listenUriList, mustMatch, hit, at) ==
    requestPartsOf(url, listenUriList, mustMatch,
                   substr(url, 0, at), Slash \o substrFrom(url, at + Len(hit.sep)),
                   hit.protocol)

requestPartsAtListenUri(url, listenUriList, mustMatch, end) ==
    requestPartsOf(url, listenUriList, mustMatch,
                   substr(url, 0, end), substrFrom(url, end), STAR)

\* The embedded-path family is tried before the query-string family, and the
\* split at the listen URI is the fallback.
requestPartsFor(url, listenUriList, mustMatch, e, q) ==
    IF e > 0
    THEN requestPartsAtSeparator(url, listenUriList, mustMatch, EmbeddedSeparators[e],
                                 indexOf(url, EmbeddedSeparators[e].sep))
    ELSE IF q > 0
    THEN requestPartsAtSeparator(url, listenUriList, mustMatch, QuerySeparators[q],
                                 indexOf(url, QuerySeparators[q].sep))
    ELSE requestPartsAtListenUri(url, listenUriList, mustMatch,
                                 listenEnd(url, listenUriList,
                                           firstListenUri(url, listenUriList)))

\* Split the request line into the path the proxy listens on and the target.
parseURLRequest(url, listenUriList, mustMatch) ==
    requestPartsFor(url, listenUriList, mustMatch,
                    firstSeparator(url, EmbeddedSeparators),
                    firstSeparator(url, QuerySeparators))

\* Does the parsed referrer match the allowed entry on protocol, path and domain?
referrerMatchesEntry(parts, entry) ==
    /\ testProtocolsMatch(entry.protocol, parts.protocol)
    /\ (entry.path = STAR \/ startsWith(parts.path, entry.path))
    /\ testDomainsMatch(entry.hostname, parts.hostname)

RECURSIVE firstMatchingReferrer(_, _, _)
firstMatchingReferrer(parts, allowedReferrers, i) ==
    IF i > Len(allowedReferrers) THEN NULL
    ELSE IF referrerMatchesEntry(parts, allowedReferrers[i]) THEN allowedReferrers[i].referrer
    ELSE firstMatchingReferrer(parts, allowedReferrers, i + 1)

\* The matcher without its rule for the literal "*".
validatedReferrerParsingStar(referrer, allowedReferrers, allowAnyReferrer) ==
    IF allowAnyReferrer THEN STAR
    ELSE firstMatchingReferrer(parseAndFixURLParts(referrer), allowedReferrers, 1)

\* The key of the allowed entry the referrer matches, "*" when any referrer
\* is accepted, null when it matches none; the literal "*" matches nothing.
validatedReferrerFromReferrer(referrer, allowedReferrers, allowAnyReferrer) ==
    IF allowAnyReferrer THEN STAR
    ELSE IF referrer = STAR THEN NULL
    ELSE firstMatchingReferrer(parseAndFixURLParts(referrer), allowedReferrers, 1)

\* ------------------------------------------------------ Configuration
\* Words of the configuration files and of the requests.
GeoHost == <<"geo", ".", "example", ".", "com">>
MapsHost == <<"maps", ".", "example", ".", "com">>
OtherHost == <<"other", ".", "net">>
CustomerHost == <<"www", ".", "customer", ".", "com">>

\* One entry of serverUrls as written in the JSON file: "has" is the set of
\* properties the entry defines.
JsonInfoRule ==
    [has |-> {"url", "matchAll"},
     url |-> <<"https">> \o SchemeMark \o GeoHost \o <<"/", "rest", "/", "info">>,
     matchAll |-> TRUE, rateLimit |-> 0, rateLimitPeriod |-> 0, hostRedirect |-> EMPTY]

JsonRestRule ==
    [has |-> {"url", "matchAll", "rateLimit", "rateLimitPeriod"},
     url |-> GeoHost \o <<"/", "rest">>,
     matchAll |-> FALSE, rateLimit |-> 2, rateLimitPeriod |-> 1, hostRedirect |-> EMPTY]

JsonWildRule ==
    [has |-> {"url", "matchAll", "rateLimit", "rateLimitPeriod"},
     url |-> <<"*">> \o Dot \o <<"example", ".", "com", "/", "rest">>,
     matchAll |-> FALSE, rateLimit |-> 1, rateLimitPeriod |-> 1, hostRedirect |-> EMPTY]

JsonServerUrls == <<JsonInfoRule, JsonRestRule, JsonWildRule>>

JsonListenURI == << <<"/", "proxy">>, <<"/", "ping">>, <<"/", "status">> >>

JsonAnyReferrer == << STAR >>

JsonSomeReferrers ==
    << <<"*">> \o Dot \o <<"Gateway", ".", "com">>,
       <<"https">> \o SchemeMark \o CustomerHost \o <<"/", "app">> >>

\* The configuration files the proxy is started with.
ConfigurationFiles ==
    {[mustMatch |-> m, allowedReferrers |-> a, listenURI |-> JsonListenURI,
      serverUrls |-> JsonServerUrls] :
        m \in BOOLEAN, a \in {JsonAnyReferrer, JsonSomeReferrers}}

SecondsPerMinute == 60

\* The compiled allowed referrer with its key.
keyedReferrer(validated) ==
    [protocol |-> validated.protocol,
     hostname |-> validated.hostname,
     path |-> validated.path,
     referrer |-> fullReferrerURLFromParts(validated)]

referrerFromParts(parts) ==
    keyedReferrer([protocol |-> IF parts.protocol # NULL THEN parts.protocol ELSE STAR,
                   hostname |-> IF parts.hostname # NULL THEN parts.hostname ELSE parts.path,
                   path |-> IF parts.hostname # NULL THEN parts.path ELSE STAR])

\* One compiled allowed referrer (the loop body over allowedReferrers).
loadAllowedReferrer(allowedReferrer) ==
    IF allowedReferrer = STAR
    THEN [protocol |-> STAR, hostname |-> STAR, path |-> STAR, referrer |-> STAR]
    ELSE referrerFromParts(parseAndFixURLParts(trim(toLowerCase(allowedReferrer))))

\* A protocol without its trailing ":".
withoutColon(protocol) ==
    IF charAt(protocol, Len(protocol) - 1) = Colon
    THEN substr(protocol, 0, Len(protocol) - 1) ELSE protocol

jsonRateLimit(json) == IF "rateLimit" \in json.has THEN Max(json.rateLimit, 0) ELSE 0

jsonRateLimitPeriod(json) ==
    IF "rateLimitPeriod" \in json.has THEN Max(json.rateLimitPeriod, 0) ELSE 0

jsonHasHostRedirect(json) == "hostRedirect" \in json.has /\ trim(json.hostRedirect) # EMPTY

\* The parsedHostRedirect of a rule without a hostRedirect: the property is
\* not set.
UndefinedURLParts ==
    [protocol |-> NULL, hostname |-> NULL, port |-> NULL, path |-> NULL, query |-> NULL]

\* A property of a serverUrls entry counts as set when the entry defines it
\* with a value that is not blank (isPropertySet); "has" holds those.
\* The message left by the checks of the OAuth and of the user settings; the
\* second check overwrites the message of the first.
jsonErrorMessage(json) ==
    IF json.has \cap {"username", "password"} # {}
       /\ ~({"username", "password"} \subseteq json.has)
    THEN <<"username/password">>
    ELSE IF json.has \cap {"clientId", "clientSecret", "oauth2Endpoint"} # {}
            /\ ~({"clientId", "clientSecret", "oauth2Endpoint"} \subseteq json.has)
    THEN <<"OAuth">>
    ELSE EMPTY

serverUrlFromParts(json, urlParts, noHost, useRateMeter) ==
    [url |-> json.url,
     errorMessage |-> jsonErrorMessage(json),
     isUserLogin |-> {"username", "password"} \subseteq json.has,
     \* isAppLogin reads the properties clientid and clientsecret
     isAppLogin |-> {"clientid", "clientsecret"} \subseteq json.has,
     has |-> json.has,
     accessToken |-> IF "accessToken" \in json.has THEN json.accessToken ELSE NULL,
     tokenParamName |-> IF "tokenParamName" \in json.has THEN json.tokenParamName ELSE NULL,
     protocol |-> withoutColon(IF urlParts.protocol = NULL \/ urlParts.protocol = EMPTY
                               THEN STAR ELSE urlParts.protocol),
     hostname |-> IF noHost THEN urlParts.path ELSE urlParts.hostname,
     path |-> IF noHost THEN STAR ELSE urlParts.path,
     port |-> IF urlParts.port = NULL \/ urlParts.port = EMPTY THEN STAR ELSE urlParts.port,
     matchAll |-> IF "matchAll" \in json.has THEN json.matchAll ELSE TRUE,
     rateLimit |-> jsonRateLimit(json),
     rateLimitPeriod |-> jsonRateLimitPeriod(json),
     useRateMeter |-> useRateMeter,
     \* rate = rateLimit / rateLimitPeriod / 60 tokens a second, as a fraction
     rate |-> IF useRateMeter
              THEN [num |-> jsonRateLimit(json),
                    den |-> jsonRateLimitPeriod(json) * SecondsPerMinute]
              ELSE [num |-> 0, den |-> 1],
     \* ratePeriodSeconds = 1 / rate
     ratePeriodSeconds |-> IF useRateMeter
                           THEN [num |-> jsonRateLimitPeriod(json) * SecondsPerMinute,
                                 den |-> jsonRateLimit(json)]
                           ELSE [num |-> 0, den |-> 1],
     isHostRedirect |-> jsonHasHostRedirect(json),
     parsedHostRedirect |-> IF jsonHasHostRedirect(json)
                            THEN parseAndFixURLParts(trim(json.hostRedirect))
                            ELSE UndefinedURLParts]

\* The rule metered as soon as its rateLimit is positive.
serverUrlOfMeteredByLimit(json, urlParts) ==
    serverUrlFromParts(json, urlParts,
                       urlParts.hostname = NULL \/ urlParts.hostname = EMPTY,
                       jsonRateLimit(json) > 0)

serverUrlOf(json, urlParts) ==
    serverUrlFromParts(json, urlParts,
                       urlParts.hostname = NULL \/ urlParts.hostname = EMPTY,
                       jsonRateLimit(json) > 0 /\ jsonRateLimitPeriod(json) > 0)

\* One compiled service rule (the loop body over serverUrls).
loadServerUrl(json) == serverUrlOf(json, parseAndFixURLParts(json.url))

\* The configuration object after loadConfigurationFile has resolved.
loadConfigurationFile(json) ==
    [mustMatch |-> json.mustMatch,
     localPingURL |-> <<"/", "ping">>,
     localStatusURL |-> <<"/", "status">>,
     listenURI |-> json.listenURI,
     allowedReferrers |->
         [i \in 1..Len(json.allowedReferrers) |-> loadAllowedReferrer(json.allowedReferrers[i])],
     allowAnyReferrer |-> \E i \in 1..Len(json.allowedReferrers) : json.allowedReferrers[i] = STAR,
     serverUrls |-> [i \in 1..Len(json.serverUrls) |-> loadServerUrl(json.serverUrls[i])]]

\* ------------------------------------------------------ proxy.js, lookups
\* The loop over serverUrls without its break: the last matching rule wins.
RECURSIVE lastMatchingServerUrl(_, _, _)
lastMatchingServerUrl(urlParts, serverUrls, i) ==
    IF i > Len(serverUrls) THEN 0
    ELSE IF lastMatchingServerUrl(urlParts, serverUrls, i + 1) # 0
         THEN lastMatchingServerUrl(urlParts, serverUrls, i + 1)
    ELSE IF parsedUrlPartsMatch(urlParts, serverUrls[i]) THEN i ELSE 0

\* The loop of getServerUrlInfo over serverUrls: the index of the first rule
\* that matches (the loop breaks there), 0 for null.
RECURSIVE firstMatchingServerUrl(_, _, _)
firstMatchingServerUrl(urlParts, serverUrls, i) ==
    IF i > Len(serverUrls) THEN 0
    ELSE IF parsedUrlPartsMatch(urlParts, serverUrls[i]) THEN i
    ELSE firstMatchingServerUrl(urlParts, serverUrls, i + 1)

\* The while loop of getServerUrlInfo that drops leading "/" but keeps a
\* last character.
RECURSIVE dropLeadingSlashes(_)
dropLeadingSlashes(hostname) ==
    IF Len(hostname) > 1 /\ Head(hostname) = "/"
    THEN dropLeadingSlashes(Tail(hostname)) ELSE hostname

\* The host name is taken out of the path when none was parsed.
hostFromPathAt(path, hostname, i) ==
    IF i >= 0
    THEN [hostname |-> substr(hostname, 0, i),
          path |-> replace(substrFrom(hostname, i), substr(hostname, 0, i), EMPTY)]
    ELSE [hostname |-> hostname, path |-> replace(path, hostname, EMPTY)]

hostFromPath(path, hostname) == hostFromPathAt(path, hostname, indexOf(hostname, Slash))

requestedHostPath(parsed, path) ==
    IF parsed.hostname = NULL \/ parsed.hostname = EMPTY
    THEN hostFromPath(path, dropLeadingSlashes(path))
    ELSE [hostname |-> parsed.hostname, path |-> path]

requestedUrlPartsOf(urlRequestedParts, parsed, hostPath) ==
    [protocol |-> withoutColon(urlRequestedParts.protocol),
     hostname |-> hostPath.hostname,
     path |-> hostPath.path,
     port |-> IF parsed.port = NULL \/ parsed.port = EMPTY THEN STAR ELSE parsed.port,
     query |-> IF parsed.query = NULL THEN urlRequestedParts.query ELSE parsed.query]

requestedUrlPartsFrom(urlRequestedParts, parsed) ==
    requestedUrlPartsOf(urlRequestedParts, parsed,
                        requestedHostPath(parsed,
                                          IF parsed.path = NULL \/ parsed.path = EMPTY
                                          THEN urlRequestedParts.proxyPath
                                          ELSE parsed.path))

\* The URL parts getServerUrlInfo compares with the rules.
requestedUrlParts(urlRequestedParts) ==
    requestedUrlPartsFrom(urlRequestedParts,
                          parseAndFixURLParts(urlRequestedParts.proxyPath))

\* Index into serverUrls of the rule serving the request, 0 for null.
getServerUrlInfo(urlRequestedParts, serverUrls) ==
    IF urlRequestedParts.proxyPath = NULL \/ urlRequestedParts.proxyPath = EMPTY
    THEN 0
    ELSE firstMatchingServerUrl(requestedUrlParts(urlRequestedParts), serverUrls, 1)

\* The rejection reason: "" for a request that may go on.
isValidURLRequest(uri, config) ==
    IF config.mustMatch
       /\ \E i \in 1..Len(config.listenURI) :
              toLowerCase(uri) = toLowerCase(config.listenURI[i])
    THEN "no matching service url" ELSE ""

\* ------------------------------------------------------ outbound URLs
\* UrlFlexParser: the most specific protocol that is not "*" wins, the one of
\* the redirect before the one of the request; the referrer's breaks the tie.
getBestMatchProtocol(referrer, request, redirect) ==
    IF redirect.protocol # STAR THEN redirect.protocol
    ELSE IF request.protocol # STAR THEN request.protocol
    ELSE parseAndFixURLParts(referrer).protocol

\* The same for the port.
getBestMatchPort(referrer, request, redirect) ==
    IF redirect.port # STAR THEN redirect.port
    ELSE IF request.port # STAR THEN request.port
    ELSE parseAndFixURLParts(referrer).port

\* URL parts written out as a URL; a part that is "*" is left out.
buildFullURLFromParts(parts) ==
    parts.protocol \o SchemeMark \o parts.hostname
        \o (IF parts.port = STAR THEN EMPTY ELSE Colon \o parts.port)
        \o (IF parts.path = STAR THEN EMPTY ELSE parts.path)
        \o (IF parts.query = STAR \/ parts.query = EMPTY THEN EMPTY
            ELSE QuestionMark \o parts.query)

\* The portion of the requested path beyond the rule's matched prefix.
trailingPath(path, rulePath) ==
    IF path = STAR THEN EMPTY
    ELSE IF startsWith(path, rulePath) THEN substrFrom(path, Len(rulePath))
    ELSE path

\* The token parameter of a rule that holds an access token: its name is
\* tokenParamName, "token" when the rule sets none.
tokenParameter(serverURLInfo) ==
    IF serverURLInfo.accessToken = NULL THEN EMPTY
    ELSE (IF serverURLInfo.tokenParamName = NULL THEN <<"token">>
          ELSE serverURLInfo.tokenParamName)
             \o <<"=">> \o serverURLInfo.accessToken

\* The query string of the outbound URL: the request's query, then the token
\* parameter if any.
mergedQuery(query, token) ==
    IF query = EMPTY /\ token = EMPTY THEN EMPTY
    ELSE IF query = EMPTY THEN QuestionMark \o token
    ELSE IF token = EMPTY THEN QuestionMark \o query
    ELSE QuestionMark \o query \o <<"&">> \o token

\* The outbound URL of a rule without host redirect: rule.url, the request's
\* trailing path and the merged query.
buildURLFromReferrerRequestAndInfo(referrer, urlRequestedParts, serverURLInfo) ==
    serverURLInfo.url
        \o trailingPath(requestedUrlParts(urlRequestedParts).path, serverURLInfo.path)
        \o mergedQuery(urlRequestedParts.query, tokenParameter(serverURLInfo))

\* ------------------------------------------------------ rate meter
\* Token counts are kept in units of 1/rate.den token, so that the accrual of
\* rate.num / rate.den tokens a second is exact in integers.
bucketKey(referrer, ruleIndex) == <<referrer, ruleIndex>>

bucketCapacity(rule) == rule.rateLimit * rule.rate.den

oneToken(rule) == rule.rate.den

\* Linear accrual that forgets the capacity.
accrueUncapped(bucket, rule, time) ==
    bucket.tokens + (time - bucket.lastReplenishTime) * rule.rate.num

\* Linear accrual up to capacity.
accrue(bucket, rule, time) ==
    Min(bucket.tokens + (time - bucket.lastReplenishTime) * rule.rate.num,
        bucketCapacity(rule))

\* A bucket created full: the check that creates it takes no token.
newBucketFull(rule, time) ==
    [tokens |-> bucketCapacity(rule),
     capacity |-> bucketCapacity(rule),
     refillRate |-> rule.rate,
     lastReplenishTime |-> time]

newBucket(rule, time) ==
    [tokens |-> bucketCapacity(rule) - oneToken(rule),
     capacity |-> bucketCapacity(rule),
     refillRate |-> rule.rate,
     lastReplenishTime |-> time]

\* One token is deducted from the accrued count if that leaves it at 0 or more.
deductToken(bucketMap, key, rule, time, accrued) ==
    [isUnderCap |-> accrued - oneToken(rule) >= 0,
     buckets |->
         [bucketMap EXCEPT
             ![key].tokens = IF accrued - oneToken(rule) >= 0
                             THEN accrued - oneToken(rule) ELSE accrued,
             ![key].lastReplenishTime = time]]

\* isUnderRate(referrer, rule) at the given time over the bucket map: the
\* answer and the bucket map it leaves.
isUnderRate(referrer, ruleIndex, rule, bucketMap, time) ==
    IF bucketKey(referrer, ruleIndex) \notin DOMAIN bucketMap
    THEN [isUnderCap |-> TRUE,
          buckets |-> (bucketKey(referrer, ruleIndex) :> newBucket(rule, time)) @@ bucketMap]
    ELSE deductToken(bucketMap, bucketKey(referrer, ruleIndex), rule, time,
                     accrue(bucketMap[bucketKey(referrer, ruleIndex)], rule, time))

\* A bucket taken for idle after one refill interval (1 / rate seconds).
isIdleBucketAfterInterval(bucket, time) ==
    (time - bucket.lastReplenishTime) * bucket.refillRate.num >= bucket.refillRate.den

\* A bucket the reaper removes: untouched for one full period.
isIdleBucket(bucket, time) == time - bucket.lastReplenishTime >= bucket.refillRate.den

\* ------------------------------------------------------ the proxy server
VARIABLES
    configuration,            \* the loaded configuration object
    requests,                 \* the requests handed to processRequest, in order
    buckets,                  \* the rate meter's bucket map
    now,                      \* the clock, in seconds
    attemptedRequests,
    validProcessedRequests,
    errorProcessedRequests,
    probe                     \* input and result of a function under study

vars == <<configuration, requests, buckets, now, attemptedRequests,
          validProcessedRequests, errorProcessedRequests, probe>>

NoBuckets == [key \in {} |-> 0]

NoProbe == [fn |-> "none"]

\* Index standing for the serverURLInfo object processRequest builds itself
\* when mustMatch is off and no rule matches.
SyntheticRule == -1

\* A request as processRequest receives it. pc is where its handling stands:
\* "metering" waits for isUnderRate, "dumping" for databaseDump, "dispatched"
\* for the upstream service, "closed" is the end.
\* dispatched tells that the request was handed to proxyServer.web, attempts
\* how many times, with target as its URL and host as its Host header.
\* broker lists the calls made to the credential broker for the request.
\* errorMessage is the message the callbacks of isUnderRate answer with.
MeterExceededMessage ==
    "This is a metered resource, number of requests have exceeded the rate limit interval."

MeterFailedMessage ==
    "This is a metered resource but the server failed to determine the meter status of this resource."

receivedRequest(url) ==
    [url |-> url, parsed |-> FALSE, listenPath |-> EMPTY, referrer |-> NULL,
     referrerChecked |-> FALSE, serverURLInfo |-> 0, isUnderCap |-> "not asked",
     dispatched |-> FALSE, pc |-> "received", statusCode |-> 0, body |-> "none",
     responses |-> 0, target |-> NULL, host |-> NULL, attempts |-> 0, broker |-> << >>,
     errorMessage |-> "none"]

\* The handlers below take and return a record w of what they may write: the
\* request under work, the configuration object and the two counters.
sendJSONResponse(w, statusCode, responseBody) ==
    [w EXCEPT !.request.statusCode = statusCode,
              !.request.body = responseBody,
              !.request.responses = @ + 1,
              !.request.pc = "closed"]

sendErrorResponse(w, errorCode) ==
    sendJSONResponse([w EXCEPT !.errorProcessedRequests = @ + 1], errorCode, "error")

sendPingResponse(w) ==
    [sendJSONResponse(w, 200, "ping") EXCEPT !.validProcessedRequests = @ + 1]

reportHTMLStatusResponse(w) ==
    [w EXCEPT !.request.statusCode = 200,
              !.request.body = "status",
              !.request.responses = @ + 1,
              !.request.pc = "closed"]

\* A status request turned away.
sendStatusResponseDenied(w) == sendErrorResponse(w, 403)

\* rateMeter is set by startServer before the first request and is not null
\* while requests are served: databaseDump is always asked.
sendStatusResponse(w) == [w EXCEPT !.request.pc = "dumping"]

\* The serverURLInfo processRequest builds from the listen path when
\* mustMatch is off and no rule matches; the properties it does not set read
\* as undefined.
syntheticServerUrl(requestParts, parsed) ==
    [url |-> parsed.hostname \o parsed.path,
     protocol |-> requestParts.protocol,
     hostname |-> parsed.hostname,
     path |-> parsed.path,
     port |-> parsed.port,
     isHostRedirect |-> FALSE,
     parsedHostRedirect |-> UndefinedURLParts,
     accessToken |-> NULL,
     tokenParamName |-> NULL]

\* The parsed proxy path with the host of the redirect, and the protocol and
\* port that match best.
redirectedParts(referrer, parsedProxy, parsedHostRedirect) ==
    [parsedProxy EXCEPT
        !.hostname = parsedHostRedirect.hostname,
        !.protocol = getBestMatchProtocol(referrer, parsedProxy, parsedHostRedirect),
        !.port = getBestMatchPort(referrer, parsedProxy, parsedHostRedirect)]

redirectedRequest(parsedProxy) ==
    [proxyRequest |-> buildFullURLFromParts(parsedProxy), hostname |-> parsedProxy.hostname]

\* proxyRequest and hostname as processValidatedRequest sets them.
proxyRequestFor(urlRequestedParts, serverURLInfo, referrer) ==
    IF serverURLInfo.isHostRedirect
    THEN redirectedRequest(
             redirectedParts(referrer, parseAndFixURLParts(urlRequestedParts.proxyPath),
                             serverURLInfo.parsedHostRedirect))
    ELSE [proxyRequest |->
              buildURLFromReferrerRequestAndInfo(referrer, urlRequestedParts, serverURLInfo),
          hostname |-> serverURLInfo.hostname]

\* request.url and request.headers.host are set and the request is handed to
\* proxyServer.web.
issueProxyRequest(w, spoof) ==
    [w EXCEPT !.validProcessedRequests = @ + 1,
              !.request.target = spoof.proxyRequest,
              !.request.host = spoof.hostname,
              !.request.attempts = @ + 1,
              !.request.dispatched = TRUE,
              !.request.pc = "dispatched"]

\* The same with the redirect written into the rule: parsedHostRedirect takes
\* the protocol and port chosen for this request.
processValidatedRequestAliased(urlRequestedParts, serverURLInfo, referrer, w) ==
    IF w.request.serverURLInfo # 0
    THEN issueProxyRequest(
             IF w.request.serverURLInfo > 0 /\ serverURLInfo.isHostRedirect
             THEN [w EXCEPT !.configuration.serverUrls[w.request.serverURLInfo]
                                .parsedHostRedirect =
                                redirectedParts(
                                    referrer,
                                    parseAndFixURLParts(urlRequestedParts.proxyPath),
                                    serverURLInfo.parsedHostRedirect)]
             ELSE w,
             proxyRequestFor(urlRequestedParts, serverURLInfo, referrer))
    ELSE sendErrorResponse(w, 403)

\* proxyServer is likewise not null: a request with a serverURLInfo is handed
\* to proxyServer.web.  w.request.serverURLInfo is 0 for a null serverURLInfo.
processValidatedRequest(urlRequestedParts, serverURLInfo, referrer, w) ==
    IF w.request.serverURLInfo # 0
    THEN issueProxyRequest(w, proxyRequestFor(urlRequestedParts, serverURLInfo, referrer))
    ELSE sendErrorResponse(w, 403)

checkRateMeterThenProcessValidatedRequest(w) ==
    [w EXCEPT !.request.isUnderCap = "pending", !.request.pc = "metering"]

\* The rule match with every rule metered.
processRuleMatchAlwaysMetered(requestParts, referrer, config, serverURLInfo, w) ==
    IF serverURLInfo # 0
    THEN checkRateMeterThenProcessValidatedRequest(
             [w EXCEPT !.request.serverURLInfo = serverURLInfo])
    ELSE IF ~config.mustMatch
    THEN processValidatedRequest(
             requestParts,
             syntheticServerUrl(requestParts, parseAndFixURLParts(requestParts.listenPath)),
             referrer,
             [w EXCEPT !.request.serverURLInfo = SyntheticRule])
    ELSE sendErrorResponse(w, 404)

\* processRequest from the lookup of the service rule on.
processRuleMatch(requestParts, referrer, config, serverURLInfo, w) ==
    IF serverURLInfo # 0
    THEN IF config.serverUrls[serverURLInfo].useRateMeter
         THEN checkRateMeterThenProcessValidatedRequest(
                  [w EXCEPT !.request.serverURLInfo = serverURLInfo])
         ELSE processValidatedRequest(
                  requestParts, config.serverUrls[serverURLInfo], referrer,
                  [w EXCEPT !.request.serverURLInfo = serverURLInfo])
    ELSE IF ~config.mustMatch
    THEN processValidatedRequest(
             requestParts,
             syntheticServerUrl(requestParts, parseAndFixURLParts(requestParts.listenPath)),
             referrer,
             [w EXCEPT !.request.serverURLInfo = SyntheticRule])
    ELSE sendErrorResponse(w, 404)

\* The same without the test of the referrer.
processReferrerUnchecked(requestParts, referrer, config, w) ==
    IF requestParts.listenPath = config.localStatusURL THEN sendStatusResponse(w)
    ELSE IF isValidURLRequest(requestParts.proxyPath, config) # ""
         THEN sendErrorResponse(w, 403)
    ELSE processRuleMatch(requestParts, referrer, config,
                          getServerUrlInfo(requestParts, config.serverUrls), w)

\* processRequest from the validation of the referrer on.
processReferrer(requestParts, referrer, config, w) ==
    IF referrer = NULL THEN sendErrorResponse(w, 403)
    ELSE IF requestParts.listenPath = config.localStatusURL THEN sendStatusResponse(w)
    ELSE IF isValidURLRequest(requestParts.proxyPath, config) # ""
         THEN sendErrorResponse(w, 403)
    ELSE processRuleMatch(requestParts, referrer, config,
                          getServerUrlInfo(requestParts, config.serverUrls), w)

\* The same with the ping path behind the check of the referrer.
processParsedRequestPingChecked(requestParts, referrer, config, w) ==
    processReferrer(
        requestParts,
        validatedReferrerFromReferrer(referrer, config.allowedReferrers,
                                      config.allowAnyReferrer),
        config,
        [w EXCEPT !.request.referrer =
                      validatedReferrerFromReferrer(referrer, config.allowedReferrers,
                                                    config.allowAnyReferrer),
                  !.request.referrerChecked = TRUE])

\* processRequest from the reading of the Referer header on.
\* The request keyed by the Referer header as received, not by the entry it matches.
processParsedRequestRawKey(requestParts, referrer, config, w) ==
    IF requestParts.listenPath = config.localPingURL
    THEN sendPingResponse([w EXCEPT !.request.referrer = referrer])
    ELSE processReferrer(
             requestParts,
             validatedReferrerFromReferrer(referrer, config.allowedReferrers,
                                           config.allowAnyReferrer),
             config,
             [w EXCEPT !.request.referrer = referrer,
                       !.request.referrerChecked = TRUE])

processParsedRequest(requestParts, referrer, config, w) ==
    IF requestParts.listenPath = config.localPingURL
    THEN sendPingResponse([w EXCEPT !.request.referrer = referrer])
    ELSE processReferrer(
             requestParts,
             validatedReferrerFromReferrer(referrer, config.allowedReferrers,
                                           config.allowAnyReferrer),
             config,
             [w EXCEPT !.request.referrer =
                           validatedReferrerFromReferrer(referrer, config.allowedReferrers,
                                                         config.allowAnyReferrer),
                       !.request.referrerChecked = TRUE])

processParts(requestParts, referer, config, w) ==
    IF requestParts.isNull THEN sendErrorResponse(w, 403)
    ELSE processParsedRequest(
             requestParts,
             IF referer = NULL \/ Len(referer) < 1 THEN STAR ELSE trim(toLowerCase(referer)),
             config,
             [w EXCEPT !.request.parsed = TRUE,
                       !.request.listenPath = requestParts.listenPath])

processRequest(url, referer, config, w) ==
    processParts(parseURLRequest(url, config.listenURI, config.mustMatch), referer, config, w)

\* The upstream service hands back a response that http-proxy pipes to the
\* client, whatever its status.
proxyResponse(w, statusCode) ==
    [w EXCEPT !.request.statusCode = statusCode,
              !.request.body = "upstream",
              !.request.responses = @ + 1,
              !.request.pc = "closed"]

\* The callback given to proxyServer.web: it writes a log line and nothing to
\* the client.
proxyResponseError(w) == [w EXCEPT !.request.pc = "closed"]

\* The requestParts the callbacks of isUnderRate hold in their closure.
requestPartsOfRequest(w) ==
    parseURLRequest(w.request.url, w.configuration.listenURI, w.configuration.mustMatch)

\* A callback that forwards the request whatever the answer.
onIsUnderRateIgnoringAnswer(w, isUnderCap) ==
    processValidatedRequest(
        requestPartsOfRequest(w), w.configuration.serverUrls[w.request.serverURLInfo],
        w.request.referrer,
        [w EXCEPT !.request.isUnderCap = IF isUnderCap THEN "true" ELSE "false"])

\* The first callback of checkRateMeterThenProcessValidatedRequest.
onIsUnderRate(w, isUnderCap) ==
    IF isUnderCap
    THEN processValidatedRequest(
             requestPartsOfRequest(w), w.configuration.serverUrls[w.request.serverURLInfo],
             w.request.referrer, [w EXCEPT !.request.isUnderCap = "true"])
    ELSE sendErrorResponse([w EXCEPT !.request.isUnderCap = "false",
                                     !.request.errorMessage = MeterExceededMessage], 420)

\* A second callback that passes the request on when the meter fails.
onIsUnderRateErrorForwarding(w) ==
    processValidatedRequest(
        requestPartsOfRequest(w), w.configuration.serverUrls[w.request.serverURLInfo],
        w.request.referrer, [w EXCEPT !.request.isUnderCap = "error"])

\* Its second callback.
onIsUnderRateError(w) ==
    sendErrorResponse([w EXCEPT !.request.isUnderCap = "error",
                                !.request.errorMessage = MeterFailedMessage], 420)

\* ------------------------------------------------------ requests
ProxyListen == <<"/", "proxy">>

PingUrl == <<"/", "ping">>

StatusUrl == <<"/", "status">>

RequestUrls ==
    {PingUrl,
     StatusUrl,
     ProxyListen \o <<"/", "http", "/">> \o GeoHost \o <<"/", "rest", "/", "info">>,
     ProxyListen \o <<"?", "https">> \o SchemeMark \o GeoHost
         \o <<"/", "rest", "/", "info", "?", "f=json">>,
     ProxyListen \o <<"/", "*", "/">> \o MapsHost \o <<"/", "rest">>,
     ProxyListen \o <<"/", "http", "/">> \o OtherHost \o <<"/", "rest">>,
     ProxyListen \o <<"/", "http", "/", "proxy">>,
     <<"/", "favicon", ".", "ico">>}

\* Referer headers; NULL is a request without the header.
RequestReferers ==
    {NULL,
     <<" ", "HTTPS">> \o SchemeMark \o <<"WWW", ".", "Gateway", ".", "com", "/", "app", " ">>,
     <<"https">> \o SchemeMark \o CustomerHost \o <<"/", "app">>,
     <<"http">> \o SchemeMark \o CustomerHost \o <<"/", "app">>}

\* Status codes the upstream service answers with.
UpstreamStatusCodes == {200, 404}

TickSeconds == {15, 30}

\* ------------------------------------------------------ actions
world(request) ==
    [request |-> request,
     configuration |-> configuration,
     validProcessedRequests |-> validProcessedRequests,
     errorProcessedRequests |-> errorProcessedRequests]

\* A handler is over: the request, the configuration object and the counters
\* are as it leaves them.
Settle(i, w) ==
    /\ requests' = [requests EXCEPT ![i] = w.request]
    /\ configuration' = w.configuration
    /\ validProcessedRequests' = w.validProcessedRequests
    /\ errorProcessedRequests' = w.errorProcessedRequests

Accept(w) ==
    /\ requests' = Append(requests, w.request)
    /\ configuration' = w.configuration
    /\ validProcessedRequests' = w.validProcessedRequests
    /\ errorProcessedRequests' = w.errorProcessedRequests

\* The bucket is checked and the callback runs with the answer.
SettleMeter(i, answer) ==
    /\ buckets' = answer.buckets
    /\ Settle(i, onIsUnderRate(world(requests[i]), answer.isUnderCap))

Init ==
    /\ configuration \in {loadConfigurationFile(json) : json \in ConfigurationFiles}
    /\ requests = << >>
    /\ buckets = NoBuckets
    /\ now = 0
    /\ attemptedRequests = 0
    /\ validProcessedRequests = 0
    /\ errorProcessedRequests = 0
    /\ probe = NoProbe

\* The server's "request" listener.
ProcessRequest(url, referer) ==
    /\ Len(requests) < MaxRequests
    /\ Accept(processRequest(url, referer, configuration, world(receivedRequest(url))))
    /\ attemptedRequests' = attemptedRequests + 1
    /\ UNCHANGED <<buckets, now, probe>>

\* The promise of isUnderRate resolves.
IsUnderRateResolved(i) ==
    /\ requests[i].pc = "metering"
    /\ SettleMeter(i, isUnderRate(requests[i].referrer, requests[i].serverURLInfo,
                                  configuration.serverUrls[requests[i].serverURLInfo],
                                  buckets, now))
    /\ UNCHANGED <<now, attemptedRequests, probe>>

\* The promise of isUnderRate rejects.
IsUnderRateRejected(i) ==
    /\ requests[i].pc = "metering"
    /\ Settle(i, onIsUnderRateError(world(requests[i])))
    /\ UNCHANGED <<buckets, now, attemptedRequests, probe>>

\* The promise of databaseDump settles: both callbacks of sendStatusResponse
\* report the status page.
DatabaseDumpSettled(i) ==
    /\ requests[i].pc = "dumping"
    /\ Settle(i, reportHTMLStatusResponse(world(requests[i])))
    /\ UNCHANGED <<buckets, now, attemptedRequests, probe>>

\* The upstream service answers a dispatched request.
UpstreamResponse(i, statusCode) ==
    /\ requests[i].pc = "dispatched"
    /\ Settle(i, proxyResponse(world(requests[i]), statusCode))
    /\ UNCHANGED <<buckets, now, attemptedRequests, probe>>

\* The upstream service cannot be reached. proxyServer.web was given a
\* callback, so http-proxy calls it and does not emit "error".
UpstreamTransportError(i) ==
    /\ requests[i].pc = "dispatched"
    /\ Settle(i, proxyResponseError(world(requests[i])))
    /\ UNCHANGED <<buckets, now, attemptedRequests, probe>>

\* The rate meter's background reaper.
Reaper ==
    /\ \E key \in DOMAIN buckets : isIdleBucket(buckets[key], now)
    /\ buckets' = [key \in {k \in DOMAIN buckets : ~isIdleBucket(buckets[k], now)} |->
                      buckets[key]]
    /\ UNCHANGED <<configuration, requests, now, attemptedRequests,
                   validProcessedRequests, errorProcessedRequests, probe>>

Tick(seconds) ==
    /\ now + seconds <= MaxTime
    /\ now' = now + seconds
    /\ UNCHANGED <<configuration, requests, buckets, attemptedRequests,
                   validProcessedRequests, errorProcessedRequests, probe>>

Next ==
    \/ \E url \in RequestUrls, referer \in RequestReferers : ProcessRequest(url, referer)
    \/ \E i \in DOMAIN requests : IsUnderRateResolved(i)
    \/ \E i \in DOMAIN requests : IsUnderRateRejected(i)
    \/ \E i \in DOMAIN requests : DatabaseDumpSettled(i)
    \/ \E i \in DOMAIN requests, statusCode \in UpstreamStatusCodes :
           UpstreamResponse(i, statusCode)
    \/ \E i \in DOMAIN requests : UpstreamTransportError(i)
    \/ Reaper
    \/ \E seconds \in TickSeconds : Tick(seconds)

Spec == Init /\ [][Next]_vars

\* ------------------------------------------------------ the referrer matcher
\* Referrers, as processRequest hands them to validatedReferrerFromReferrer.
StudyProtocols == {<<"http">>, <<"https">>, <<"HTTPS">>}

StudyHosts ==
    {CustomerHost,
     <<"www", ".", "gateway", ".", "com">>,
     <<"gateway", ".", "com">>,
     <<"geo", ".", "www", ".", "gateway", ".", "com">>,
     OtherHost}

StudyPaths == {EMPTY, <<"/", "app">>, <<"/", "app", "/", "rest">>, <<"/", "rest">>}

StudyReferrers ==
    {STAR}
        \cup {p \o SchemeMark \o h \o path :
                 p \in StudyProtocols, h \in StudyHosts, path \in StudyPaths}
        \cup {h \o path : h \in StudyHosts, path \in StudyPaths}

StudyAllowedReferrers ==
    {JsonSomeReferrers,
     << <<"https">> \o SchemeMark \o <<"*">> >>,
     << <<"http">> \o SchemeMark \o <<"*", ".", "*", ".", "com", "/", "app">>,
        <<"*">> \o Dot \o <<"Gateway", ".", "com">> >>}

InitReferrer ==
    /\ configuration \in
           {loadConfigurationFile([mustMatch |-> TRUE, allowedReferrers |-> a,
                                   listenURI |-> JsonListenURI,
                                   serverUrls |-> JsonServerUrls]) :
               a \in StudyAllowedReferrers}
    /\ requests = << >>
    /\ buckets = NoBuckets
    /\ now = 0
    /\ attemptedRequests = 0
    /\ validProcessedRequests = 0
    /\ errorProcessedRequests = 0
    /\ probe \in {[fn |-> "validatedReferrerFromReferrer", referrer |-> r,
                   done |-> FALSE, out |-> NULL] : r \in StudyReferrers}

ValidateReferrer ==
    /\ probe.fn = "validatedReferrerFromReferrer"
    /\ ~probe.done
    /\ probe' = [probe EXCEPT
                    !.done = TRUE,
                    !.out = validatedReferrerFromReferrer(probe.referrer,
                                                          configuration.allowedReferrers,
                                                          configuration.allowAnyReferrer)]
    /\ UNCHANGED <<configuration, requests, buckets, now, attemptedRequests,
                   validProcessedRequests, errorProcessedRequests>>

NextReferrer == ValidateReferrer

SpecReferrer == InitReferrer /\ [][NextReferrer]_vars

\* ------------------------------------------------------ the rule lookup
StudySeparators ==
    {<<"/", "http", "/">>, <<"/", "https", "/">>, <<"/", "*", "/">>,
     <<"?", "http", ":", "/", "/">>, <<"&", "https", ":", "/", "/">>, Slash}

StudyTargetHosts ==
    {GeoHost, <<"GEO", ".", "example", ".", "com">>, MapsHost,
     <<"geo", ".", "maps", ".", "example", ".", "com">>, OtherHost}

StudyTargetPaths ==
    {EMPTY, <<"/", "rest">>, <<"/", "rest", "/", "info">>,
     <<"/", "rest", "/", "info", "/", "app">>, <<"/", "app">>}

StudyUrls ==
    {ProxyListen}
        \cup {ProxyListen \o sep \o h \o path :
                 sep \in StudySeparators, h \in StudyTargetHosts, path \in StudyTargetPaths}

StudyServerUrls ==
    {JsonServerUrls,
     <<JsonWildRule, JsonRestRule, JsonInfoRule>>,
     <<JsonInfoRule, JsonWildRule>>}

InitLookup ==
    /\ configuration \in
           {loadConfigurationFile([mustMatch |-> TRUE, allowedReferrers |-> JsonAnyReferrer,
                                   listenURI |-> JsonListenURI, serverUrls |-> s]) :
               s \in StudyServerUrls}
    /\ requests = << >>
    /\ buckets = NoBuckets
    /\ now = 0
    /\ attemptedRequests = 0
    /\ validProcessedRequests = 0
    /\ errorProcessedRequests = 0
    /\ probe \in {[fn |-> "getServerUrlInfo", url |-> u, done |-> FALSE, out |-> 0] :
                     u \in StudyUrls}

LookUpServerUrl ==
    /\ probe.fn = "getServerUrlInfo"
    /\ ~probe.done
    /\ probe' = [probe EXCEPT
                    !.done = TRUE,
                    !.out = getServerUrlInfo(
                                parseURLRequest(probe.url, configuration.listenURI,
                                                configuration.mustMatch),
                                configuration.serverUrls)]
    /\ UNCHANGED <<configuration, requests, buckets, now, attemptedRequests,
                   validProcessedRequests, errorProcessedRequests>>

NextLookup == LookUpServerUrl

SpecLookup == InitLookup /\ [][NextLookup]_vars

\* ------------------------------------------------------ properties
usesRateMeter(request) ==
    /\ request.serverURLInfo > 0
    /\ configuration.serverUrls[request.serverURLInfo].useRateMeter

isUnmetered(request) ==
    /\ request.serverURLInfo > 0
    /\ ~configuration.serverUrls[request.serverURLInfo].useRateMeter

isPing(request) == request.parsed /\ request.listenPath = configuration.localPingURL

isStatus(request) ==
    request.parsed /\ ~isPing(request) /\ request.listenPath = configuration.localStatusURL

isRejected(request, errorCode) ==
    /\ request.pc = "closed"
    /\ request.statusCode = errorCode
    /\ request.body = "error"
    /\ request.responses = 1
    /\ ~request.dispatched

\* C1: every request whose handling is over has reached one terminal outcome
\* (the proxied answer, the ping or status page, or an error 403, 404, 420 or
\* 500) and the client has received exactly one response for it; no request
\* is ever answered twice.
C1_ExactlyOneResponse ==
    \A i \in DOMAIN requests :
        /\ requests[i].responses <= 1
        /\ requests[i].pc = "closed" =>
              /\ requests[i].responses = 1
              /\ \/ requests[i].body \in {"upstream", "ping", "status"}
                 \/ requests[i].body = "error" /\ requests[i].statusCode \in {403, 404, 420, 500}

\* C2: a request for a metered rule is handed upstream only once isUnderRate
\* has answered true for that request, and when it has answered false the
\* request is answered 420 and is not handed upstream.
C2_MeteredDispatch ==
    \A i \in DOMAIN requests :
        usesRateMeter(requests[i]) =>
            /\ requests[i].dispatched => requests[i].isUnderCap = "true"
            /\ requests[i].isUnderCap = "false" => isRejected(requests[i], 420)

C2_Witness ==
    \E i, j \in DOMAIN requests :
        /\ usesRateMeter(requests[i]) /\ usesRateMeter(requests[j])
        /\ requests[i].isUnderCap = "true" /\ requests[i].dispatched
        /\ requests[j].isUnderCap = "false" /\ requests[j].statusCode = 420

\* C3: a request other than a ping whose referrer validates to null is
\* answered 403 in the step that receives it, is not handed upstream, does not
\* ask the rate meter, and that step leaves the buckets and
\* validProcessedRequests as they were.
C3_DeniedReferrer ==
    [][\A i \in DOMAIN requests' :
          (requests'[i].referrerChecked /\ requests'[i].referrer = NULL) =>
              /\ isRejected(requests'[i], 403)
              /\ requests'[i].isUnderCap = "not asked"
              /\ i \notin DOMAIN requests =>
                    /\ validProcessedRequests' = validProcessedRequests
                    /\ buckets' = buckets]_vars

C3_Witness ==
    \E i \in DOMAIN requests :
        /\ requests[i].referrerChecked
        /\ requests[i].referrer = NULL
        /\ ~isStatus(requests[i])
        /\ getServerUrlInfo(parseURLRequest(requests[i].url, configuration.listenURI,
                                            configuration.mustMatch),
                            configuration.serverUrls) # 0
        /\ requests[i].statusCode = 403
        /\ validProcessedRequests > 0

\* C5: a request on the ping path is answered 200 with the ping body whatever
\* its Referer, and neither the referrer matcher nor the rate meter is asked.
C5_PingAlwaysAnswered ==
    \A i \in DOMAIN requests :
        isPing(requests[i]) =>
            /\ requests[i].pc = "closed"
            /\ requests[i].statusCode = 200
            /\ requests[i].body = "ping"
            /\ requests[i].responses = 1
            /\ ~requests[i].referrerChecked
            /\ requests[i].isUnderCap = "not asked"
            /\ ~requests[i].dispatched

C5_Witness ==
    \E i, j \in DOMAIN requests :
        /\ isPing(requests[i]) /\ isPing(requests[j])
        /\ requests[i].referrer = STAR
        /\ requests[j].referrer # STAR
        /\ validatedReferrerFromReferrer(requests[i].referrer, configuration.allowedReferrers,
                                         configuration.allowAnyReferrer) = NULL
        /\ validatedReferrerFromReferrer(requests[j].referrer, configuration.allowedReferrers,
                                         configuration.allowAnyReferrer) = NULL
        /\ requests[i].statusCode = 200 /\ requests[j].statusCode = 200

\* C6: a request on the status path is answered with the 200 status page
\* exactly when its referrer validated to a key; with a null referrer it is
\* answered 403 at once and never waits for a dump of the rate meter.
C6_StatusNeedsReferrer ==
    \A i \in DOMAIN requests :
        isStatus(requests[i]) =>
            /\ requests[i].referrerChecked
            /\ requests[i].referrer = NULL => isRejected(requests[i], 403)
            /\ requests[i].referrer # NULL =>
                  /\ requests[i].pc \in {"dumping", "closed"}
                  /\ requests[i].pc = "closed" =>
                        /\ requests[i].statusCode = 200
                        /\ requests[i].body = "status"
                        /\ requests[i].responses = 1

C6_Witness ==
    \E i, j \in DOMAIN requests :
        /\ isStatus(requests[i]) /\ isStatus(requests[j])
        /\ requests[i].referrer # NULL /\ requests[i].body = "status"
        /\ requests[j].referrer = NULL /\ requests[j].statusCode = 403

\* C7: a request with a validated referrer whose target matches no service
\* rule is answered 404 and not handed upstream when mustMatch is on, and is
\* handed upstream when mustMatch is off.
C7_NoRuleMatch ==
    \A i \in DOMAIN requests :
        (/\ requests[i].referrerChecked
         /\ requests[i].referrer # NULL
         /\ ~isStatus(requests[i])
         /\ getServerUrlInfo(parseURLRequest(requests[i].url, configuration.listenURI,
                                             configuration.mustMatch),
                             configuration.serverUrls) = 0) =>
            IF configuration.mustMatch
            THEN isRejected(requests[i], 404)
            ELSE requests[i].dispatched

\* C8: a request for a rule that is not metered is handed upstream without
\* isUnderRate being asked, and no step that receives or advances it changes
\* the buckets.
C8_UnmeteredDispatch ==
    [][\A i \in DOMAIN requests' :
          isUnmetered(requests'[i]) =>
              /\ requests'[i].dispatched
              /\ requests'[i].isUnderCap = "not asked"
              /\ (i \notin DOMAIN requests \/ requests[i] # requests'[i]) =>
                    buckets' = buckets]_vars

C8_Witness ==
    \E i \in DOMAIN requests :
        /\ isUnmetered(requests[i])
        /\ requests[i].dispatched
        /\ requests[i].body = "upstream"
        /\ buckets # NoBuckets

C9_FirstMatchingRule ==
    (probe.fn = "getServerUrlInfo" /\ probe.done) =>
        LET parts == parseURLRequest(probe.url, configuration.listenURI,
                                     configuration.mustMatch)
            matching == {i \in 1..Len(configuration.serverUrls) :
                            parsedUrlPartsMatch(requestedUrlParts(parts),
                                                configuration.serverUrls[i])}
        IN  IF parts.proxyPath = EMPTY \/ matching = {}
            THEN probe.out = 0
            ELSE probe.out \in matching /\ \A j \in matching : probe.out <= j

C9_Witness ==
    /\ probe.fn = "getServerUrlInfo"
    /\ probe.done
    /\ probe.out > 0
    /\ \E j \in 1..Len(configuration.serverUrls) :
          /\ j > probe.out
          /\ parsedUrlPartsMatch(
                 requestedUrlParts(parseURLRequest(probe.url, configuration.listenURI,
                                                   configuration.mustMatch)),
                 configuration.serverUrls[j])

\* C10: a bucket never holds more tokens than its capacity, rateLimit, and an
\* admission check on a bucket idle for t seconds finds min(current + r*t,
\* capacity) tokens in it, of which it takes one if there is one.
C10_Refill ==
    [][\A key \in DOMAIN buckets' :
          LET rule == configuration.serverUrls[key[2]]
              scale == rule.rateLimitPeriod * SecondsPerMinute
              capacity == rule.rateLimit * scale
          IN  /\ buckets'[key].tokens <= capacity
              /\ buckets'[key].tokens >= 0
              /\ (key \in DOMAIN buckets /\ buckets'[key] # buckets[key]) =>
                    LET held == Min(buckets[key].tokens
                                        + rule.rateLimit * (now - buckets[key].lastReplenishTime),
                                    capacity)
                    IN  buckets'[key].tokens = IF held >= scale THEN held - scale ELSE held]_vars

C10_Witness ==
    \E key \in DOMAIN buckets :
        /\ buckets[key].lastReplenishTime > 0
        /\ buckets[key].lastReplenishTime < SecondsPerMinute
        /\ buckets[key].tokens = buckets[key].capacity - buckets[key].refillRate.den
        /\ buckets[key].capacity > buckets[key].refillRate.den
        /\ \E i, j \in DOMAIN requests :
              /\ i # j
              /\ requests[i].isUnderCap = "true" /\ requests[j].isUnderCap = "true"
              /\ bucketKey(requests[i].referrer, requests[i].serverURLInfo) = key
              /\ bucketKey(requests[j].referrer, requests[j].serverURLInfo) = key

\* ------------------------------------------------------ a run of checks
\* One referrer asks for one metered rule again and again; between two checks
\* no time passes, and after a denial the referrer may wait for a number of
\* refill intervals (1 / rate seconds each).
StudyRateLimits == {1, 2, 3}

StudyRatePeriods == {1, 2}

StudyMeteredFiles ==
    {[mustMatch |-> TRUE, allowedReferrers |-> JsonAnyReferrer, listenURI |-> JsonListenURI,
      serverUrls |-> << [JsonRestRule EXCEPT !.rateLimit = c, !.rateLimitPeriod = p] >>] :
        c \in StudyRateLimits, p \in StudyRatePeriods}

\* Seconds in one refill interval of the rule, ratePeriodSeconds.
ratePeriodSeconds(rule) == rule.rate.den \div rule.rate.num

\* The request the checks are made for.
meteredRequest ==
    [receivedRequest(ProxyListen \o <<"/", "http", "/">> \o GeoHost \o <<"/", "rest">>) EXCEPT
        !.parsed = TRUE, !.listenPath = ProxyListen, !.referrer = STAR,
        !.referrerChecked = TRUE, !.serverURLInfo = 1,
        !.isUnderCap = "pending", !.pc = "metering"]

InitMeter ==
    /\ configuration \in {loadConfigurationFile(json) : json \in StudyMeteredFiles}
    /\ requests = << >>
    /\ buckets = NoBuckets
    /\ now = 0
    /\ attemptedRequests = 0
    /\ validProcessedRequests = 0
    /\ errorProcessedRequests = 0
    /\ probe = [fn |-> "isUnderRate", log |-> << >>]

\* The check is made and its answer handed to the callback of
\* checkRateMeterThenProcessValidatedRequest: the log keeps the status the
\* client is answered with, 420, or 0 for a request passed on.
LogCheck(answer) ==
    /\ buckets' = answer.buckets
    /\ probe' = [probe EXCEPT
                    !.log = Append(@, [wait |-> 0,
                                       statusCode |->
                                           onIsUnderRate(world(meteredRequest),
                                                         answer.isUnderCap).request.statusCode])]

CheckAdmission ==
    /\ probe.fn = "isUnderRate"
    /\ Len(probe.log) < MaxChecks
    /\ LogCheck(isUnderRate(STAR, 1, configuration.serverUrls[1], buckets, now))
    /\ UNCHANGED <<configuration, requests, now, attemptedRequests,
                   validProcessedRequests, errorProcessedRequests>>

WaitIntervals(k) ==
    /\ probe.fn = "isUnderRate"
    /\ Len(probe.log) < MaxChecks
    /\ Len(probe.log) > 0
    /\ probe.log[Len(probe.log)].statusCode = 420
    /\ now' = now + k * ratePeriodSeconds(configuration.serverUrls[1])
    /\ probe' = [probe EXCEPT !.log = Append(@, [wait |-> k, statusCode |-> 0])]
    /\ UNCHANGED <<configuration, requests, buckets, attemptedRequests,
                   validProcessedRequests, errorProcessedRequests>>

NextMeter ==
    \/ CheckAdmission
    \/ \E k \in 1..configuration.serverUrls[1].rateLimit : WaitIntervals(k)

SpecMeter == InitMeter /\ [][NextMeter]_vars

\* C11: a new bucket of capacity C admits exactly C checks made with no time
\* elapsed and denies the next ones; a denied check takes no token, so after a
\* wait of k refill intervals (k <= C) exactly k further checks are admitted
\* before the next denial.
C11_BurstThenRefill ==
    probe.fn = "isUnderRate" =>
        \A n \in 1..Len(probe.log) :
            probe.log[n].wait = 0 =>
                LET waits == {m \in 1..n : probe.log[m].wait > 0}
                    last == IF waits = {} THEN 0
                            ELSE CHOOSE m \in waits : \A o \in waits : o <= m
                    allowance == IF last = 0 THEN configuration.serverUrls[1].rateLimit
                                 ELSE probe.log[last].wait
                IN  (probe.log[n].statusCode # 420) <=> (n - last <= allowance)

\* Three checks admitted and a fourth denied, then a wait of two intervals,
\* two checks admitted and the next denied.
C11_Witness ==
    /\ probe.fn = "isUnderRate"
    /\ configuration.serverUrls[1].rateLimit = 3
    /\ Len(probe.log) = 8
    /\ \A n \in 1..3 : probe.log[n].wait = 0 /\ probe.log[n].statusCode # 420
    /\ probe.log[4].statusCode = 420
    /\ probe.log[5].wait = 2
    /\ probe.log[6].statusCode # 420 /\ probe.log[7].statusCode # 420
    /\ probe.log[8].wait = 0 /\ probe.log[8].statusCode = 420

\* ------------------------------------------------------ concurrent checks
\* Several isUnderRate calls for the same (referrer, rule) are under way at
\* once.  A call takes the bucket's mutex, reads the clock and the bucket,
\* and with the release of the mutex writes the bucket back and answers.
\* overlaps tells that a call began while another was not yet answered.

\* A mutex that keeps nobody out.
bucketMutexIgnored(holder) == TRUE

\* holder is the call that has the mutex, 0 for none.
bucketMutexFree(holder) == holder = 0

InitCalls ==
    /\ configuration \in {loadConfigurationFile(json) : json \in StudyMeteredFiles}
    /\ requests = << >>
    /\ buckets = NoBuckets
    /\ now = 0
    /\ attemptedRequests = 0
    /\ validProcessedRequests = 0
    /\ errorProcessedRequests = 0
    /\ probe = [fn |-> "calls", calls |-> << >>, holder |-> 0]

StartCall ==
    /\ probe.fn = "calls"
    /\ Len(probe.calls) < MaxCalls
    /\ probe' = [probe EXCEPT
                    !.calls = Append(@, [pc |-> "waiting", time |-> 0, read |-> NoBuckets,
                                         isUnderCap |-> FALSE,
                                         overlaps |-> \E j \in DOMAIN probe.calls :
                                                         probe.calls[j].pc # "done"])]
    /\ UNCHANGED <<configuration, requests, buckets, now, attemptedRequests,
                   validProcessedRequests, errorProcessedRequests>>

AcquireBucket(i) ==
    /\ probe.fn = "calls"
    /\ probe.calls[i].pc = "waiting"
    /\ bucketMutexFree(probe.holder)
    /\ probe' = [probe EXCEPT
                    !.holder = i,
                    !.calls[i] = [@ EXCEPT !.pc = "holding", !.time = now, !.read = buckets]]
    /\ UNCHANGED <<configuration, requests, buckets, now, attemptedRequests,
                   validProcessedRequests, errorProcessedRequests>>

AnswerCall(i, answer) ==
    /\ buckets' = answer.buckets
    /\ probe' = [probe EXCEPT
                    !.holder = 0,
                    !.calls[i] = [@ EXCEPT !.pc = "done", !.isUnderCap = answer.isUnderCap]]

ReleaseBucket(i) ==
    /\ probe.fn = "calls"
    /\ probe.calls[i].pc = "holding"
    /\ AnswerCall(i, isUnderRate(STAR, 1, configuration.serverUrls[1],
                                 probe.calls[i].read, probe.calls[i].time))
    /\ UNCHANGED <<configuration, requests, now, attemptedRequests,
                   validProcessedRequests, errorProcessedRequests>>

NextCalls ==
    \/ StartCall
    \/ \E i \in DOMAIN probe.calls : AcquireBucket(i)
    \/ \E i \in DOMAIN probe.calls : ReleaseBucket(i)
    \/ \E seconds \in TickSeconds : Tick(seconds)

SpecCalls == InitCalls /\ [][NextCalls]_vars

\* The calls of order, made one after the other from its k-th on over
\* bucketMap, are answered as they were and leave the bucket map of the state.
RECURSIVE replaysTo(_, _, _)
replaysTo(order, k, bucketMap) ==
    IF k > Len(order) THEN bucketMap = buckets
    ELSE LET answer == isUnderRate(STAR, 1, configuration.serverUrls[1], bucketMap,
                                   probe.calls[order[k]].time)
         IN  /\ answer.isUnderCap = probe.calls[order[k]].isUnderCap
             /\ replaysTo(order, k + 1, answer.buckets)

\* C12: concurrent isUnderRate calls on one bucket are linearized: in every
\* state the answered calls have the answers, and the bucket the tokens and
\* lastReplenishTime, that the same calls give when made one at a time in
\* some order; no token is granted twice and no update is lost.
C12_Linearized ==
    probe.fn = "calls" =>
        LET done == {i \in DOMAIN probe.calls : probe.calls[i].pc = "done"}
        IN  \E order \in [1..Cardinality(done) -> done] :
                /\ \A a, b \in DOMAIN order : a < b =>
                       /\ order[a] # order[b]
                       /\ probe.calls[order[a]].time <= probe.calls[order[b]].time
                /\ replaysTo(order, 1, NoBuckets)

\* Three calls were under way together, the second and third begun before the
\* ones before them were answered; the bucket of two tokens admitted two.
C12_Witness ==
    /\ probe.fn = "calls"
    /\ configuration.serverUrls[1].rateLimit = 2
    /\ Len(probe.calls) = 3
    /\ \A i \in 1..3 : probe.calls[i].pc = "done" /\ probe.calls[i].time = 0
    /\ probe.calls[2].overlaps /\ probe.calls[3].overlaps
    /\ Cardinality({i \in 1..3 : probe.calls[i].isUnderCap}) = 2
    /\ buckets[bucketKey(STAR, 1)].tokens = 0

\* ------------------------------------------------------ the dispatcher
\* Requests for rules with a host redirect and with credentials.
RedirectHost == <<"redirect", ".", "example", ".", "com">>

\* The rule of the redirect example: every request below geo.example.com/path
\* goes to https://redirect.example.com:8443.
JsonRedirectRule ==
    [has |-> {"url", "matchAll", "hostRedirect"},
     url |-> GeoHost \o <<"/", "path">>,
     matchAll |-> FALSE, rateLimit |-> 0, rateLimitPeriod |-> 0,
     hostRedirect |-> <<"https">> \o SchemeMark \o RedirectHost \o <<":", "8443">>]

\* A rule with the credentials of a user login.
JsonUserLoginRule ==
    [has |-> {"url", "matchAll", "username", "password"},
     url |-> <<"https">> \o SchemeMark \o MapsHost \o <<"/", "rest">>,
     matchAll |-> FALSE, rateLimit |-> 0, rateLimitPeriod |-> 0, hostRedirect |-> EMPTY]

\* A rule with a static access token.
JsonTokenRule ==
    [has |-> {"url", "matchAll", "accessToken"},
     url |-> <<"http">> \o SchemeMark \o OtherHost \o <<"/", "rest">>,
     matchAll |-> FALSE, rateLimit |-> 0, rateLimitPeriod |-> 0, hostRedirect |-> EMPTY,
     accessToken |-> <<"abc">>]

\* A rule with a static access token, a name for its parameter and a host
\* redirect that names no protocol and no port.
JsonTokenRedirectRule ==
    [has |-> {"url", "matchAll", "accessToken", "tokenParamName", "hostRedirect"},
     url |-> GeoHost \o <<"/", "secure">>,
     matchAll |-> FALSE, rateLimit |-> 0, rateLimitPeriod |-> 0,
     hostRedirect |-> RedirectHost,
     accessToken |-> <<"abc">>, tokenParamName |-> <<"key">>]

DispatchServerUrls ==
    <<JsonRedirectRule, JsonUserLoginRule, JsonTokenRule, JsonTokenRedirectRule, JsonWildRule>>

DispatchFiles ==
    {[mustMatch |-> m, allowedReferrers |-> a, listenURI |-> JsonListenURI,
      serverUrls |-> DispatchServerUrls] :
        m \in BOOLEAN, a \in {JsonAnyReferrer, JsonSomeReferrers}}

RedirectExampleUrl ==
    ProxyListen \o Slash \o GeoHost \o <<"/", "path", "?", "q", "=", "1">>

DispatchUrls ==
    {RedirectExampleUrl,
     ProxyListen \o <<"/", "https", "/">> \o MapsHost \o <<"/", "rest", "/", "info">>,
     ProxyListen \o <<"/", "http", "/">> \o OtherHost \o <<"/", "rest", "?", "q", "=", "1">>,
     ProxyListen \o <<"/", "http", "/">> \o OtherHost \o <<"/", "rest", "/", "info">>,
     ProxyListen \o <<"/", "https", "/">> \o GeoHost \o <<"/", "secure", "?", "q", "=", "1">>,
     ProxyListen \o <<"/", "http", "/">> \o <<"www", ".", "example", ".", "com", "/", "rest">>,
     ProxyListen \o <<"/", "http", "/">> \o CustomerHost \o <<"/", "data">>,
     StatusUrl}

DispatchReferers ==
    {NULL, <<"https">> \o SchemeMark \o CustomerHost \o <<"/", "app">>}

\* Status codes of the upstream service, 498 for a token it does not accept.
DispatchStatusCodes == {200, 498}

InitDispatch ==
    /\ configuration \in {loadConfigurationFile(json) : json \in DispatchFiles}
    /\ requests = << >>
    /\ buckets = NoBuckets
    /\ now = 0
    /\ attemptedRequests = 0
    /\ validProcessedRequests = 0
    /\ errorProcessedRequests = 0
    /\ probe = NoProbe

NextDispatch ==
    \/ \E url \in DispatchUrls, referer \in DispatchReferers : ProcessRequest(url, referer)
    \/ \E i \in DOMAIN requests : IsUnderRateResolved(i)
    \/ \E i \in DOMAIN requests : IsUnderRateRejected(i)
    \/ \E i \in DOMAIN requests : DatabaseDumpSettled(i)
    \/ \E i \in DOMAIN requests, statusCode \in DispatchStatusCodes :
           UpstreamResponse(i, statusCode)
    \/ \E i \in DOMAIN requests : UpstreamTransportError(i)

SpecDispatch == InitDispatch /\ [][NextDispatch]_vars

\* The rule a request was matched with, as processValidatedRequest receives it.
ruleOf(request) ==
    IF request.serverURLInfo > 0 THEN configuration.serverUrls[request.serverURLInfo]
    ELSE syntheticServerUrl(
             parseURLRequest(request.url, configuration.listenURI, configuration.mustMatch),
             parseAndFixURLParts(request.listenPath))

\* A rule whose requests need a token: a user login, an app login or a static
\* access token.
hasCredentials(serverURLInfo) ==
    \/ serverURLInfo.isUserLogin
    \/ {"clientId", "clientSecret"} \subseteq serverURLInfo.has
    \/ serverURLInfo.accessToken # NULL

\* A rule whose token has to be acquired from a token service.
acquiresToken(serverURLInfo) ==
    \/ serverURLInfo.isUserLogin
    \/ {"clientId", "clientSecret"} \subseteq serverURLInfo.has

\* The calls of one kind made to the credential broker for the request.
brokerCalls(request, call) ==
    Cardinality({k \in DOMAIN request.broker : request.broker[k] = call})

\* The requests handed upstream for the rule and not answered yet.
inFlightFor(rule) ==
    {i \in DOMAIN requests : requests[i].serverURLInfo = rule /\ requests[i].pc = "dispatched"}

\* The token acquisitions started for the requests of the rule.
acquisitionsFor(rule) ==
    Cardinality({c \in (DOMAIN requests) \X (1..MaxRequests) :
                    /\ requests[c[1]].serverURLInfo = rule
                    /\ c[2] \in DOMAIN requests[c[1]].broker
                    /\ requests[c[1]].broker[c[2]] = "getToken"})

\* C13: when several requests for the same rule with a login are under way
\* together and no token is cached, exactly one token acquisition has been
\* started for them.
C13_SingleAcquisition ==
    \A rule \in DOMAIN configuration.serverUrls :
        (/\ acquiresToken(configuration.serverUrls[rule])
         /\ Cardinality(inFlightFor(rule)) >= 2) =>
            acquisitionsFor(rule) = 1

\* Status codes by which the upstream service refuses a token.
TokenFailureCodes == {401, 403, 498, 499}

\* C14: a request for a rule with credentials that the upstream service
\* refused with 401, 403, 498 or 499 has been retried once: the refusal reaches
\* the client only as the answer to a second attempt, made after one
\* invalidate and a second getToken.
C14_RetryOnce ==
    \A i \in DOMAIN requests :
        (/\ requests[i].serverURLInfo > 0
         /\ hasCredentials(ruleOf(requests[i]))
         /\ requests[i].pc = "closed"
         /\ requests[i].body = "upstream"
         /\ requests[i].statusCode \in TokenFailureCodes) =>
            /\ requests[i].attempts = 2
            /\ brokerCalls(requests[i], "getToken") = 2
            /\ brokerCalls(requests[i], "invalidate") = 1

\* The name of the token parameter of a rule.
tokenParamNameOf(serverURLInfo) ==
    IF serverURLInfo.tokenParamName = NULL THEN <<"token">> ELSE serverURLInfo.tokenParamName

\* The places of the URL where a query parameter of that name starts.
queryParametersNamed(url, name) ==
    {k \in 2..(Len(url) - 1) :
        url[k - 1] \in {"?", "&"} /\ <<url[k]>> = name /\ url[k + 1] = "="}

\* C15: the outbound URL of every request handed upstream for a rule with
\* credentials has exactly one query parameter named by the rule's
\* tokenParamName ("token" by default), and for a static token its value is
\* the rule's access token.
C15_TokenAttached ==
    \A i \in DOMAIN requests :
        (/\ requests[i].dispatched
         /\ requests[i].serverURLInfo > 0
         /\ hasCredentials(ruleOf(requests[i]))) =>
            /\ Cardinality(queryParametersNamed(requests[i].target,
                                                tokenParamNameOf(ruleOf(requests[i])))) = 1
            /\ ruleOf(requests[i]).accessToken # NULL =>
                  \A k \in queryParametersNamed(requests[i].target,
                                                tokenParamNameOf(ruleOf(requests[i]))) :
                      substr(requests[i].target, k + 1, Len(ruleOf(requests[i]).accessToken))
                          = ruleOf(requests[i]).accessToken

\* The request line of a request in its parts.
requestPartsOfUrl(request) ==
    parseURLRequest(request.url, configuration.listenURI, configuration.mustMatch)

\* C16: the outbound URL of a request for a rule with hostRedirect has the
\* hostname of the redirect, its protocol and its port where they are not "*",
\* and the path and the query of the request; the request
\* /proxy/geo.example.com/path?q=1 for the redirect
\* https://redirect.example.com:8443 goes to
\* https://redirect.example.com:8443/path?q=1.
C16_RedirectKeepsPathAndQuery ==
    \A i \in DOMAIN requests :
        (/\ requests[i].dispatched
         /\ requests[i].serverURLInfo > 0
         /\ ruleOf(requests[i]).isHostRedirect) =>
            LET redirect == ruleOf(requests[i]).parsedHostRedirect
                outbound == parseAndFixURLParts(requests[i].target)
            IN  /\ outbound.hostname = redirect.hostname
                /\ redirect.protocol # STAR => outbound.protocol = redirect.protocol
                /\ redirect.port # STAR => outbound.port = redirect.port
                /\ outbound.path = requestedUrlParts(requestPartsOfUrl(requests[i])).path
                /\ outbound.query = orStar(requestPartsOfUrl(requests[i]).query)
                /\ requests[i].url = RedirectExampleUrl =>
                      requests[i].target =
                          <<"https">> \o SchemeMark \o RedirectHost
                              \o <<":", "8443", "/", "path", "?", "q", "=", "1">>

\* C17: the Host header of every request handed upstream is the hostname of
\* its outbound URL.
C17_HostOfTarget ==
    \A i \in DOMAIN requests :
        requests[i].dispatched =>
            requests[i].host = parseAndFixURLParts(requests[i].target).hostname

\* C18: a dispatched request that ends without an answer of the upstream
\* service, because the transport failed, ends with one response 500 that
\* carries the JSON error body.
C18_TransportFailureAnswered ==
    [][\A i \in DOMAIN requests :
           (/\ requests[i].pc = "dispatched"
            /\ requests'[i].pc = "closed"
            /\ requests'[i].body # "upstream") =>
               /\ requests'[i].statusCode = 500
               /\ requests'[i].body = "error"
               /\ requests'[i].responses = 1]_vars

\* C19: no step of the request processing changes the configuration object:
\* serverUrls and every field of every rule stay as loaded.
C19_RuleTableFrozen == [][configuration' = configuration]_vars

\* Requests went through the rule lookup, the rate meter, the host redirect,
\* the dispatch and the status page, and the configuration is the loaded one.
C19_Witness ==
    /\ configuration \in {loadConfigurationFile(json) : json \in DispatchFiles}
    /\ \E i, j \in DOMAIN requests :
          /\ requests[i].serverURLInfo > 0
          /\ ruleOf(requests[i]).isHostRedirect
          /\ ruleOf(requests[i]).parsedHostRedirect.protocol = STAR
          /\ requests[i].pc = "closed" /\ requests[i].body = "upstream"
          /\ requests[j].serverURLInfo > 0
          /\ ruleOf(requests[j]).useRateMeter
          /\ requests[j].isUnderCap = "true"
          /\ requests[j].dispatched

\* ------------------------------------------------------ configuration load
\* The load of a configuration file that sets the properties of probe.has and
\* whose serverUrls, when set, hold the one entry probe.entry.  A property the
\* file does not set reads as undefined.
UNDEFINED == <<"<undefined>">>

OptionalProperties ==
    {"mustMatch", "logLevel", "logFileName", "logFilePath", "allowedReferrers",
     "pingPath", "statusPath"}

\* proxyConfig.listenURI and serverUrls
RequiredProperties == {"listenURI", "serverUrls"}

\* The values the file gives to the properties it sets.
JsonProxyConfig ==
    [mustMatch |-> <<"false">>, logLevel |-> <<"ALL">>, logFileName |-> <<"proxy", ".", "log">>,
     logFilePath |-> <<".", "/">>, allowedReferrers |-> JsonSomeReferrers,
     pingPath |-> <<"/", "alive">>, statusPath |-> <<"/", "info">>,
     listenURI |-> <<"/", "proxy">>]

\* An entry of serverUrls that sets its url and nothing else.
JsonUrlOnlyRule ==
    [has |-> {"url"},
     url |-> <<"https">> \o SchemeMark \o GeoHost \o <<"/", "rest", "/", "info">>,
     matchAll |-> TRUE, rateLimit |-> 0, rateLimitPeriod |-> 0, hostRedirect |-> EMPTY]

\* An entry with a username and no password.
JsonHalfLoginRule ==
    [has |-> {"url", "username"},
     url |-> <<"https">> \o SchemeMark \o MapsHost \o <<"/", "rest">>,
     matchAll |-> TRUE, rateLimit |-> 0, rateLimitPeriod |-> 0, hostRedirect |-> EMPTY]

\* The entry in the layout {url: ...} or in the older layout {serverUrl: {url: ...}}.
StudyEntries ==
    {[layout |-> layout, json |-> json] :
        layout \in {"new", "old"}, json \in {JsonUrlOnlyRule, JsonHalfLoginRule}}

\* json.proxyConfig[property]
jsonProperty(has, property) ==
    IF property \in has THEN JsonProxyConfig[property] ELSE UNDEFINED

\* object[property]
propertyOf(object, property) ==
    IF property \in DOMAIN object THEN object[property] ELSE UNDEFINED

\* The configuration object before a file is loaded.
DefaultConfiguration ==
    [mustMatch |-> <<"true">>, logLevel |-> <<"ERROR">>,
     logFileName |-> UNDEFINED, logFilePath |-> UNDEFINED,
     localPingURL |-> <<"/", "ping">>, localStatusURL |-> <<"/", "status">>,
     listenURI |-> NULL, allowedReferrers |-> << STAR >>, allowAnyReferrer |-> FALSE,
     \* undefined until a file sets it (the object literal names serverURLs);
     \* isConfigurationValid treats undefined and empty alike
     serverUrls |-> << >>]

\* The callback of loadJsonFile up to the loop over the log levels: every
\* test is "!== null", which undefined passes, so the value is copied.
copyUpToLogLevel(config, has) ==
    [config EXCEPT !.mustMatch = jsonProperty(has, "mustMatch"),
                   !.logFileName = jsonProperty(has, "logFileName"),
                   !.logFilePath = jsonProperty(has, "logFilePath")]

\* From the log level to the allowed referrers.
copyLogLevel(config, has) ==
    [config EXCEPT !.logLevel = jsonProperty(has, "logLevel")]

\* The loop body over serverUrls keeps the entry of the array and writes the
\* derived fields to serverUrl.serverUrl when the entry has that property:
\* the array, which becomes configuration.serverUrls, still holds the wrapper.
loadServerUrlEntry(entry) ==
    IF entry.layout = "old" THEN [serverUrl |-> loadServerUrl(entry.json)]
    ELSE loadServerUrl(entry.json)

\* From the allowed referrers to the end of the callback. listenURI is not an
\* array here, so it is wrapped in one, set or not; serverUrls is tested
\* with "!= null" and is skipped when the file does not set it.
copyFromAllowedReferrers(config, has, entry) ==
    [config EXCEPT
        !.allowedReferrers =
            [i \in 1..Len(JsonSomeReferrers) |-> loadAllowedReferrer(JsonSomeReferrers[i])],
        !.listenURI = << jsonProperty(has, "listenURI") >>,
        !.localPingURL = jsonProperty(has, "pingPath"),
        !.localStatusURL = jsonProperty(has, "statusPath"),
        !.serverUrls = IF "serverUrls" \in has THEN << loadServerUrlEntry(entry) >> ELSE @]

\* The callback of loadJsonFile: json.proxyConfig.logLevel.toUpperCase() and
\* json.proxyConfig.allowedReferrers.indexOf(',') throw a TypeError on
\* undefined, and what was copied before stays.
copyProxyConfig(config, has, entry) ==
    IF "logLevel" \notin has
    THEN [configuration |-> copyUpToLogLevel(config, has), thrown |-> TRUE]
    ELSE IF "allowedReferrers" \notin has
    THEN [configuration |-> copyLogLevel(copyUpToLogLevel(config, has), has),
          thrown |-> TRUE]
    ELSE [configuration |->
              copyFromAllowedReferrers(copyLogLevel(copyUpToLogLevel(config, has), has),
                                       has, entry),
          thrown |-> FALSE]

\* QuickLogger.setConfiguration: logFilePath is assigned only when the
\* configuration names a log file or a log path; read without that, in
\* fs.accessSync and again in the catch clause, it is a ReferenceError.
setConfiguration(config, logPathWritable) ==
    IF config.logFilePath = UNDEFINED /\ config.logFileName = UNDEFINED THEN "thrown"
    ELSE IF logPathWritable THEN "valid" ELSE "invalid"

\* isConfigurationValid: the verdict of the logger, then listenURI and
\* serverUrls; allowedReferrers is neither null nor empty here.
isConfigurationValid(config, logPathWritable) ==
    IF setConfiguration(config, logPathWritable) = "thrown" THEN "thrown"
    ELSE IF config.listenURI = NULL \/ Len(config.listenURI) = 0 THEN "invalid"
    ELSE IF Len(config.serverUrls) = 0 THEN "invalid"
    ELSE IF \E i \in DOMAIN config.serverUrls :
                propertyOf(config.serverUrls[i], "errorMessage") # EMPTY
         THEN "invalid"
    ELSE setConfiguration(config, logPathWritable)

\* exitCode is -1 while the process runs; promise is the state of the promise
\* that loadConfigurationFile returned.
InitLoad ==
    /\ configuration = DefaultConfiguration
    /\ requests = << >>
    /\ buckets = NoBuckets
    /\ now = 0
    /\ attemptedRequests = 0
    /\ validProcessedRequests = 0
    /\ errorProcessedRequests = 0
    /\ probe \in {[fn |-> "load", has |-> has, entry |-> entry, logPathWritable |-> writable,
                   pc |-> "loading", exitCode |-> -1, promise |-> "pending"] :
                     has \in SUBSET (OptionalProperties \cup RequiredProperties),
                     entry \in StudyEntries, writable \in BOOLEAN}

UnchangedServer ==
    UNCHANGED <<requests, buckets, now, attemptedRequests, validProcessedRequests,
                errorProcessedRequests>>

\* The promise of loadJsonFile resolves and its callback copies the file. An
\* error thrown in the callback settles neither way the promise that
\* loadConfigurationFile returned.
LoadJsonFileResolved ==
    /\ probe.fn = "load" /\ probe.pc = "loading"
    /\ configuration' = copyProxyConfig(configuration, probe.has, probe.entry).configuration
    /\ probe' = [probe EXCEPT
                    !.pc = IF copyProxyConfig(configuration, probe.has, probe.entry).thrown
                           THEN "thrown" ELSE "validating"]
    /\ UnchangedServer

\* The promise of loadJsonFile rejects: the file cannot be read or is no JSON.
\* The second callback writes a log line and calls neither resolvePromise nor
\* rejectPromise.
LoadJsonFileRejected ==
    /\ probe.fn = "load" /\ probe.pc = "loading"
    /\ probe' = [probe EXCEPT !.pc = "file error logged"]
    /\ UNCHANGED configuration
    /\ UnchangedServer

\* The end of the callback: the promise resolves for a valid configuration
\* and rejects for an invalid one.
ConfigurationComplete ==
    /\ probe.fn = "load" /\ probe.pc = "validating"
    /\ probe' = [probe EXCEPT
                    !.pc = CASE isConfigurationValid(configuration, probe.logPathWritable)
                                    = "valid" -> "resolved"
                             [] isConfigurationValid(configuration, probe.logPathWritable)
                                    = "invalid" -> "rejected"
                             [] OTHER -> "thrown",
                    !.promise = CASE isConfigurationValid(configuration,
                                                          probe.logPathWritable)
                                         = "valid" -> "resolved"
                                  [] isConfigurationValid(configuration,
                                                          probe.logPathWritable)
                                         = "invalid" -> "rejected"
                                  [] OTHER -> "pending"]
    /\ UNCHANGED configuration
    /\ UnchangedServer

\* loadConfigurationFile().then(startServer, cannotStartServer)
StartServer ==
    /\ probe.fn = "load" /\ probe.pc = "resolved"
    /\ probe' = [probe EXCEPT !.pc = "started"]
    /\ UNCHANGED configuration
    /\ UnchangedServer

\* cannotStartServer calls process.exit() without a code and process.exitCode
\* is not set: the process ends with code 0.
CannotStartServer ==
    /\ probe.fn = "load" /\ probe.pc = "rejected"
    /\ probe' = [probe EXCEPT !.pc = "not started", !.exitCode = 0]
    /\ UNCHANGED configuration
    /\ UnchangedServer

\* The error thrown in the callback rejects a promise nobody handles. A
\* runtime that raises it as an uncaught exception runs the exitHandler
\* registered for "uncaughtException", which calls process.exit(); a runtime
\* that only warns leaves the process waiting, which is no step here.
UnhandledRejection ==
    /\ probe.fn = "load" /\ probe.pc = "thrown"
    /\ probe' = [probe EXCEPT !.pc = "not started", !.exitCode = 0]
    /\ UNCHANGED configuration
    /\ UnchangedServer

NextLoad ==
    \/ LoadJsonFileResolved
    \/ LoadJsonFileRejected
    \/ ConfigurationComplete
    \/ StartServer
    \/ CannotStartServer
    \/ UnhandledRejection

SpecLoad == InitLoad /\ [][NextLoad]_vars

\* C20: the load of a file that sets only listenURI and serverUrls with a url,
\* where the log path can be written, does not end in an error or a rejection,
\* and once the callback has run the configuration holds the defaults:
\* mustMatch true, the ping path /ping, the status path /status and the
\* allowed referrers ["*"].
C20_MinimalConfigurationLoads ==
    (/\ probe.fn = "load"
     /\ probe.has = RequiredProperties
     /\ probe.entry = [layout |-> "new", json |-> JsonUrlOnlyRule]
     /\ probe.logPathWritable) =>
        /\ probe.pc \notin {"thrown", "rejected", "not started"}
        /\ probe.pc # "loading" =>
              /\ configuration.mustMatch = <<"true">>
              /\ configuration.localPingURL = <<"/", "ping">>
              /\ configuration.localStatusURL = <<"/", "status">>
              /\ configuration.allowedReferrers = << STAR >>

\* A file the specification calls invalid: no listenURI, no serverUrls, an
\* entry that leaves an errorMessage, or a log path that cannot be written.
isInvalidFile(file) ==
    \/ "listenURI" \notin file.has
    \/ "serverUrls" \notin file.has
    \/ jsonErrorMessage(file.entry.json) # EMPTY
    \/ ~file.logPathWritable

\* C21: with an invalid configuration the server is never started, and when
\* the process has ended its exit code is not 0.
C21_InvalidConfigurationExits ==
    (probe.fn = "load" /\ isInvalidFile(probe)) =>
        /\ probe.pc \notin {"resolved", "started"}
        /\ probe.pc = "not started" => probe.exitCode > 0

\* C23: an entry of serverUrls in the older layout {serverUrl: {...}} is
\* stored in configuration.serverUrls as the rule it wraps, with url and the
\* derived fields, and the configuration is as valid as with the same rule in
\* the new layout.
C23_OlderLayoutUnwrapped ==
    (/\ probe.fn = "load"
     /\ probe.entry.layout = "old"
     /\ Len(configuration.serverUrls) = 1) =>
        /\ configuration.serverUrls[1] = loadServerUrl(probe.entry.json)
        /\ isConfigurationValid(configuration, probe.logPathWritable)
               = isConfigurationValid(
                     [configuration EXCEPT !.serverUrls = << loadServerUrl(probe.entry.json) >>],
                     probe.logPathWritable)

\* ------------------------------------------------------ boolean settings
\* The settings that may be written as a string, and strings for them.
BooleanSettings == {"mustMatch", "matchAllReferrer", "logToConsole", "matchAll"}

BooleanWords == {"true", "TRUE", "True", "1", "0", "false", "FALSE", "yes", "on"}

BooleanStrings ==
    {before \o word \o after :
        before \in {EMPTY, <<" ">>},
        word \in {<<w>> : w \in BooleanWords} \cup {EMPTY},
        after \in {EMPTY, <<" ">>}}

\* value.toLocaleLowerCase().trim() === 'true' || value === '1'
\* (serverUrl.matchAll is compared with ==, which for two strings is the same)
coerceBooleanString(value) ==
    trim(toLowerCase(value)) = <<"true">> \/ value = <<"1">>

InitCoerce ==
    /\ configuration = DefaultConfiguration
    /\ requests = << >>
    /\ buckets = NoBuckets
    /\ now = 0
    /\ attemptedRequests = 0
    /\ validProcessedRequests = 0
    /\ errorProcessedRequests = 0
    /\ probe \in {[fn |-> "coerce", setting |-> setting, value |-> value, pc |-> "read",
                   result |-> FALSE] :
                     setting \in BooleanSettings, value \in BooleanStrings}

\* loadConfigurationFile reads the setting, a string.
CoerceSetting ==
    /\ probe.fn = "coerce" /\ probe.pc = "read"
    /\ probe' = [probe EXCEPT !.pc = "coerced", !.result = coerceBooleanString(probe.value)]
    /\ UNCHANGED configuration
    /\ UnchangedServer

NextCoerce == CoerceSetting

SpecCoerce == InitCoerce /\ [][NextCoerce]_vars

\* C22: a setting written as a string is true exactly when the string, in
\* lower case and trimmed, is "true" or "1".
C22_BooleanStrings ==
    (probe.fn = "coerce" /\ probe.pc = "coerced") =>
        probe.result = (trim(toLowerCase(probe.value)) \in {<<"true">>, <<"1">>})

\* ---------------------------------------------------------------------------
\* The request line parser on its own: every encoding of a proxied URL is
\* parsed, and the parts are put together again and parsed once more.

ParseListens == {ProxyListen, StatusUrl, <<"/", "other">>}

ParseSeparators ==
    {<<"/", "http", "/">>, <<"/", "https", "/">>, <<"/", "*", "/">>,
     <<"?", "http", ":", "/", "/">>, <<"?", "https", ":", "/", "/">>,
     <<"&", "http", ":", "/", "/">>, <<"&", "https", ":", "/", "/">>, Slash}

HttpSeparators ==
    {<<"/", "http", "/">>, <<"?", "http", ":", "/", "/">>, <<"&", "http", ":", "/", "/">>}

ParseHosts == {GeoHost, OtherHost}

ParsePaths == {EMPTY, <<"/", "rest">>, <<"/", "rest", "/", "info", "/">>}

ParseQueries == {EMPTY, <<"?", "q", "=", "json">>, <<"?", "q", "?", "json">>}

ParseInputs ==
    {[listen |-> EMPTY, sep |-> EMPTY, host |-> EMPTY, path |-> EMPTY, query |-> EMPTY,
      url |-> EMPTY]}
        \cup {[listen |-> l, sep |-> s, host |-> h, path |-> p, query |-> q,
               url |-> l \o s \o h \o p \o q] :
                 l \in ParseListens, s \in ParseSeparators, h \in ParseHosts,
                 p \in ParsePaths, q \in ParseQueries}

\* The string the parts are put together to: listenPath + '/' + protocol + '/' + proxyPath.
joinedParts(parts) ==
    parts.listenPath \o Slash \o parts.protocol \o Slash \o parts.proxyPath

InitParse ==
    /\ configuration \in
           {loadConfigurationFile([mustMatch |-> m, allowedReferrers |-> JsonAnyReferrer,
                                   listenURI |-> JsonListenURI,
                                   serverUrls |-> JsonServerUrls]) : m \in BOOLEAN}
    /\ requests = << >>
    /\ buckets = NoBuckets
    /\ now = 0
    /\ attemptedRequests = 0
    /\ validProcessedRequests = 0
    /\ errorProcessedRequests = 0
    /\ probe \in {[fn |-> "parseURLRequest", in |-> i, pc |-> "read",
                   parts |-> NullRequestParts, again |-> NullRequestParts] :
                     i \in ParseInputs}

ParseRequest ==
    /\ probe.fn = "parseURLRequest"
    /\ probe.pc = "read"
    /\ probe' = [probe EXCEPT
                    !.pc = "parsed",
                    !.parts = parseURLRequest(probe.in.url, configuration.listenURI,
                                              configuration.mustMatch)]
    /\ UNCHANGED <<configuration, requests, buckets, now, attemptedRequests,
                   validProcessedRequests, errorProcessedRequests>>

ParseJoinedParts ==
    /\ probe.fn = "parseURLRequest"
    /\ probe.pc = "parsed"
    /\ ~probe.parts.isNull
    /\ probe' = [probe EXCEPT
                    !.pc = "parsed again",
                    !.again = parseURLRequest(joinedParts(probe.parts),
                                              configuration.listenURI,
                                              configuration.mustMatch)]
    /\ UNCHANGED <<configuration, requests, buckets, now, attemptedRequests,
                   validProcessedRequests, errorProcessedRequests>>

NextParse == ParseRequest \/ ParseJoinedParts

SpecParse == InitParse /\ [][NextParse]_vars

sameTarget(a, b) ==
    /\ a.isNull = b.isNull
    /\ a.listenPath = b.listenPath
    /\ a.protocol = b.protocol
    /\ a.proxyPath = b.proxyPath

isConfiguredListen(listen) ==
    \E i \in 1..Len(configuration.listenURI) : configuration.listenURI[i] = listen

\* C25: the embedded, the "?" and the "&" encoding of http://host/path?q after
\* a listen path yield the same parts: that listen path, proxyPath /host/path,
\* protocol http and the query after the first "?"; the form without a protocol
\* yields protocol "*"; an empty URL, and under mustMatch a URL with none of the
\* listen URIs, yields null.
C25_EquivalentEncodings ==
    (probe.fn = "parseURLRequest" /\ probe.pc # "read") =>
        /\ (probe.in.sep \in HttpSeparators
                /\ (isConfiguredListen(probe.in.listen) \/ ~configuration.mustMatch)) =>
               probe.parts = [isNull |-> FALSE,
                              listenPath |-> probe.in.listen,
                              proxyPath |-> Slash \o probe.in.host \o probe.in.path,
                              protocol |-> <<"http">>,
                              query |-> IF probe.in.query = EMPTY THEN EMPTY
                                        ELSE Tail(probe.in.query)]
        /\ (probe.in.sep = Slash
                /\ (isConfiguredListen(probe.in.listen) \/ ~configuration.mustMatch)) =>
               ~probe.parts.isNull /\ probe.parts.protocol = STAR
        /\ (probe.in.url = EMPTY
                \/ (configuration.mustMatch /\ ~isConfiguredListen(probe.in.listen))) =>
               probe.parts.isNull

C25_Witness ==
    /\ probe.fn = "parseURLRequest"
    /\ probe.pc = "parsed"
    /\ probe.in.sep = <<"&", "http", ":", "/", "/">>
    /\ probe.in.query = <<"?", "q", "?", "json">>
    /\ probe.parts.query = <<"q", "?", "json">>
    /\ probe.parts.proxyPath = Slash \o GeoHost \o <<"/", "rest">>

\* ---------------------------------------------------------------------------
\* The key of the bucket: requests for the metered rules arrive with several
\* Referer headers for each allowed entry, all at the same instant.
MaxKeyedRequests == 3

KeyUrls ==
    {ProxyListen \o <<"/", "http", "/">> \o GeoHost \o <<"/", "rest">>,
     ProxyListen \o <<"/", "*", "/">> \o MapsHost \o <<"/", "rest">>}

KeyReferers ==
    {<<"https">> \o SchemeMark \o <<"www", ".", "Gateway", ".", "com", "/", "app">>,
     <<"http">> \o SchemeMark \o <<"maps", ".", "gateway", ".", "com", "/">>,
     <<"https">> \o SchemeMark \o CustomerHost \o <<"/", "app">>,
     <<"https">> \o SchemeMark \o CustomerHost \o <<"/", "app", "/", "page">>}

InitKeys ==
    /\ configuration \in
           {loadConfigurationFile([mustMatch |-> TRUE, allowedReferrers |-> a,
                                   listenURI |-> JsonListenURI,
                                   serverUrls |-> JsonServerUrls]) :
               a \in {JsonAnyReferrer, JsonSomeReferrers}}
    /\ requests = << >>
    /\ buckets = NoBuckets
    /\ now = 0
    /\ attemptedRequests = 0
    /\ validProcessedRequests = 0
    /\ errorProcessedRequests = 0
    /\ probe = [fn |-> "keys", referers |-> << >>]

\* The "request" listener; the Referer header of each request is kept.
ProcessKeyedRequest(url, referer) ==
    /\ probe.fn = "keys"
    /\ Len(requests) < MaxKeyedRequests
    /\ Accept(processRequest(url, referer, configuration, world(receivedRequest(url))))
    /\ attemptedRequests' = attemptedRequests + 1
    /\ probe' = [probe EXCEPT !.referers = Append(@, referer)]
    /\ UNCHANGED <<buckets, now>>

NextKeys ==
    \/ \E url \in KeyUrls, referer \in KeyReferers : ProcessKeyedRequest(url, referer)
    \/ \E i \in DOMAIN requests : IsUnderRateResolved(i)

SpecKeys == InitKeys /\ [][NextKeys]_vars

\* The allowed entry a Referer header matches (0: none).
matchedEntry(referer) ==
    IF configuration.allowAnyReferrer THEN 1
    ELSE IF \E e \in DOMAIN configuration.allowedReferrers :
                referrerMatchesEntry(parseAndFixURLParts(trim(toLowerCase(referer))),
                                     configuration.allowedReferrers[e])
    THEN CHOOSE e \in DOMAIN configuration.allowedReferrers :
            /\ referrerMatchesEntry(parseAndFixURLParts(trim(toLowerCase(referer))),
                                    configuration.allowedReferrers[e])
            /\ \A d \in 1..(e - 1) :
                   ~referrerMatchesEntry(parseAndFixURLParts(trim(toLowerCase(referer))),
                                         configuration.allowedReferrers[d])
    ELSE 0

\* The requests the meter has answered.
chargedRequests == {i \in DOMAIN requests : requests[i].isUnderCap \in {"true", "false"}}

entryAndRule(i) == <<matchedEntry(probe.referers[i]), requests[i].serverURLInfo>>

\* C26: the meter is charged under the key of the allowed entry the Referer
\* matches and the rule: requests of one rule whose Referer headers match the
\* same entry share one bucket, which holds one token less for each of them
\* that was admitted; requests of different entries or of different rules
\* have different buckets.
C26_BucketPerEntryAndRule ==
    probe.fn = "keys" =>
        /\ \A i \in chargedRequests :
               /\ matchedEntry(probe.referers[i]) # 0
               /\ bucketKey(configuration.allowedReferrers[
                                matchedEntry(probe.referers[i])].referrer,
                            requests[i].serverURLInfo) \in DOMAIN buckets
               /\ buckets[bucketKey(configuration.allowedReferrers[
                                        matchedEntry(probe.referers[i])].referrer,
                                    requests[i].serverURLInfo)].tokens
                      = bucketCapacity(configuration.serverUrls[requests[i].serverURLInfo])
                          - oneToken(configuration.serverUrls[requests[i].serverURLInfo])
                              * Cardinality({j \in chargedRequests :
                                                /\ entryAndRule(j) = entryAndRule(i)
                                                /\ requests[j].isUnderCap = "true"})
        /\ Cardinality(DOMAIN buckets)
               = Cardinality({entryAndRule(i) : i \in chargedRequests})

C26_Witness ==
    /\ probe.fn = "keys"
    /\ ~configuration.allowAnyReferrer
    /\ \E i, j \in chargedRequests :
           /\ probe.referers[i] # probe.referers[j]
           /\ entryAndRule(i) = entryAndRule(j)
           /\ requests[i].isUnderCap = "true"
           /\ requests[j].isUnderCap = "false"
    /\ Cardinality(DOMAIN buckets) = 2

\* ---------------------------------------------------------------------------
\* Checks and the reaper: checks for two metered rules are begun and ended
\* while time passes and the reaper runs.  A check holds the mutex of its
\* bucket from its begin, where it reads the clock, to its end, where it
\* writes the bucket and answers.  kept is the bucket map of the same checks
\* with no reaper, reaped the buckets the reaper has removed, and when.
MaxReaperChecks == 3

MaxIdleTime == 150

ElapseSeconds == {15, 60}

StudyReaperFiles ==
    {[mustMatch |-> TRUE, allowedReferrers |-> JsonAnyReferrer, listenURI |-> JsonListenURI,
      serverUrls |-> << [JsonRestRule EXCEPT !.rateLimit = c, !.rateLimitPeriod = p],
                        JsonWildRule >>] :
        c \in {1, 2}, p \in {1, 2}}

InitReaper ==
    /\ configuration \in {loadConfigurationFile(json) : json \in StudyReaperFiles}
    /\ requests = << >>
    /\ buckets = NoBuckets
    /\ now = 0
    /\ attemptedRequests = 0
    /\ validProcessedRequests = 0
    /\ errorProcessedRequests = 0
    /\ probe = [fn |-> "reaper", checks |-> << >>, kept |-> NoBuckets, reaped |-> {}]

\* Is a check on the bucket of the rule under way?
isChecking(checks, ruleIndex) ==
    \E i \in DOMAIN checks : checks[i].rule = ruleIndex /\ checks[i].pc = "holding"

\* The tokens the bucket holds at the check, before the deduction.
heldTokens(bucketMap, key, rule, time) ==
    IF key \notin DOMAIN bucketMap THEN bucketCapacity(rule)
    ELSE accrue(bucketMap[key], rule, time)

BeginCheck(ruleIndex) ==
    /\ probe.fn = "reaper"
    /\ Len(probe.checks) < MaxReaperChecks
    /\ ~isChecking(probe.checks, ruleIndex)
    /\ probe' = [probe EXCEPT
                    !.checks = Append(@, [rule |-> ruleIndex, pc |-> "holding", time |-> now,
                                          held |-> 0, isUnderCap |-> FALSE,
                                          keptIsUnderCap |-> FALSE])]
    /\ UNCHANGED <<configuration, requests, buckets, now, attemptedRequests,
                   validProcessedRequests, errorProcessedRequests>>

AnswerCheck(i, held, answer, keptAnswer) ==
    /\ buckets' = answer.buckets
    /\ probe' = [probe EXCEPT
                    !.kept = keptAnswer.buckets,
                    !.checks[i] = [@ EXCEPT !.pc = "done",
                                            !.held = held,
                                            !.isUnderCap = answer.isUnderCap,
                                            !.keptIsUnderCap = keptAnswer.isUnderCap]]

EndCheck(i) ==
    /\ probe.fn = "reaper"
    /\ probe.checks[i].pc = "holding"
    /\ AnswerCheck(i,
                   heldTokens(buckets, bucketKey(STAR, probe.checks[i].rule),
                              configuration.serverUrls[probe.checks[i].rule],
                              probe.checks[i].time),
                   isUnderRate(STAR, probe.checks[i].rule,
                               configuration.serverUrls[probe.checks[i].rule],
                               buckets, probe.checks[i].time),
                   isUnderRate(STAR, probe.checks[i].rule,
                               configuration.serverUrls[probe.checks[i].rule],
                               probe.kept, probe.checks[i].time))
    /\ UNCHANGED <<configuration, requests, now, attemptedRequests,
                   validProcessedRequests, errorProcessedRequests>>

\* The reaper that does not wait for the mutex of a bucket.
reapableBucketUnlocked(bucketMap, key, checks, time) ==
    isIdleBucket(bucketMap[key], time)

\* The reaper reads a bucket under the bucket's mutex: a bucket with a check
\* under way is left to its check.
reapableBucket(bucketMap, key, checks, time) ==
    /\ isIdleBucket(bucketMap[key], time)
    /\ ~isChecking(checks, key[2])

\* One run of the reaper over the bucket map.
ReapIdleBuckets ==
    /\ probe.fn = "reaper"
    /\ \E key \in DOMAIN buckets : reapableBucket(buckets, key, probe.checks, now)
    /\ buckets' = [key \in {k \in DOMAIN buckets :
                               ~reapableBucket(buckets, k, probe.checks, now)} |->
                      buckets[key]]
    /\ probe' = [probe EXCEPT
                    !.reaped = @ \cup {[key |-> k, time |-> now] :
                                          k \in {k \in DOMAIN buckets :
                                                    reapableBucket(buckets, k, probe.checks,
                                                                   now)}}]
    /\ UNCHANGED <<configuration, requests, now, attemptedRequests,
                   validProcessedRequests, errorProcessedRequests>>

Elapse(seconds) ==
    /\ probe.fn = "reaper"
    /\ now + seconds <= MaxIdleTime
    /\ now' = now + seconds
    /\ UNCHANGED <<configuration, requests, buckets, attemptedRequests,
                   validProcessedRequests, errorProcessedRequests, probe>>

NextReaper ==
    \/ \E ruleIndex \in 1..2 : BeginCheck(ruleIndex)
    \/ \E i \in DOMAIN probe.checks : EndCheck(i)
    \/ ReapIdleBuckets
    \/ \E seconds \in ElapseSeconds : Elapse(seconds)

SpecReaper == InitReaper /\ [][NextReaper]_vars

doneChecks == {i \in DOMAIN probe.checks : probe.checks[i].pc = "done"}

\* C27: of two checks on one bucket less than 1 / rate seconds apart at most
\* one is admitted if the bucket held at most one token at the first.
C27_OneAdmittedWithinInterval ==
    probe.fn = "reaper" =>
        \A i, j \in doneChecks :
            (/\ i < j
             /\ probe.checks[i].rule = probe.checks[j].rule
             /\ (probe.checks[j].time - probe.checks[i].time)
                    * configuration.serverUrls[probe.checks[i].rule].rate.num
                  < configuration.serverUrls[probe.checks[i].rule].rate.den
             /\ probe.checks[i].held <= oneToken(configuration.serverUrls[probe.checks[i].rule]))
                => ~(probe.checks[i].isUnderCap /\ probe.checks[j].isUnderCap)

\* The rule of two requests a minute: the second check finds the one token
\* left and takes it, the third comes 15 seconds later and is denied.
C27_Witness ==
    /\ probe.fn = "reaper"
    /\ configuration.serverUrls[1].rateLimit = 2
    /\ configuration.serverUrls[1].rateLimitPeriod = 1
    /\ \E i, j \in doneChecks :
           /\ i < j
           /\ probe.checks[i].rule = 1 /\ probe.checks[j].rule = 1
           /\ probe.checks[j].time = probe.checks[i].time + 15
           /\ probe.checks[i].held = oneToken(configuration.serverUrls[1])
           /\ probe.checks[i].isUnderCap
           /\ ~probe.checks[j].isUnderCap

\* The time of the last check on the bucket of the rule that was answered.
lastTouched(ruleIndex) ==
    LET touches == {probe.checks[i].time :
                       i \in {d \in doneChecks : probe.checks[d].rule = ruleIndex}}
    IN  CHOOSE t \in touches : \A u \in touches : u <= t

periodSeconds(ruleIndex) ==
    configuration.serverUrls[ruleIndex].rateLimitPeriod * SecondsPerMinute

\* C28: a run of the reaper removes exactly the buckets that have not been
\* touched for one full period and have no admission check under way: no
\* bucket touched within the period, none with a check in progress, and every
\* other one.
C28_ReaperRemovesIdleOnly ==
    [][(probe.fn = "reaper" /\ DOMAIN buckets' # DOMAIN buckets
            /\ DOMAIN buckets' \subseteq DOMAIN buckets) =>
          \A key \in DOMAIN buckets :
              (key \notin DOMAIN buckets') <=>
                  /\ now - lastTouched(key[2]) >= periodSeconds(key[2])
                  /\ ~isChecking(probe.checks, key[2])]_vars

\* Both buckets have been idle for a full period and a check on the bucket of
\* rule 1 is under way: the run of the reaper removes the bucket of rule 2 only.
C28_Witness ==
    /\ probe.fn = "reaper"
    /\ probe.reaped = {[key |-> bucketKey(STAR, 2), time |-> now]}
    /\ bucketKey(STAR, 1) \in DOMAIN buckets
    /\ bucketKey(STAR, 2) \notin DOMAIN buckets
    /\ isChecking(probe.checks, 1)
    /\ \E i \in doneChecks : probe.checks[i].rule = 1
    /\ now - lastTouched(1) >= periodSeconds(1)

\* C29: with the reaper, which removes buckets that the next check makes anew
\* at capacity minus 1, every check is answered as the same check is answered
\* with no reaper.
C29_ReaperKeepsDecisions ==
    probe.fn = "reaper" =>
        \A i \in doneChecks : probe.checks[i].isUnderCap = probe.checks[i].keptIsUnderCap

\* A bucket was removed, the next check made it anew and was admitted, and
\* the check after it was denied.
C29_Witness ==
    /\ probe.fn = "reaper"
    /\ \E r \in probe.reaped :
           \E j, k \in doneChecks :
               /\ j < k
               /\ bucketKey(STAR, probe.checks[j].rule) = r.key
               /\ bucketKey(STAR, probe.checks[k].rule) = r.key
               /\ probe.checks[j].time >= r.time
               /\ probe.checks[j].isUnderCap
               /\ ~probe.checks[k].isUnderCap
               /\ buckets[r.key].tokens = probe.kept[r.key].tokens

\* C30: a token acquisition that failed is not cached: after a request of a
\* rule with a login has failed for want of a token, the rule holds no token
\* and no acquisition under way, and the next request of the rule starts a
\* fresh acquisition.
C30_FailureNotCached ==
    \A i, j \in DOMAIN requests :
        (/\ i < j
         /\ requests[i].serverURLInfo > 0
         /\ requests[j].serverURLInfo = requests[i].serverURLInfo
         /\ acquiresToken(ruleOf(requests[i]))
         /\ requests[i].pc = "closed"
         /\ requests[i].statusCode \in TokenFailureCodes
         /\ requests[j].dispatched) =>
            brokerCalls(requests[j], "getToken") >= 1

\* ---------------------------------------------------------------------------
\* C31: a request whose isUnderRate promise was rejected is never handed to
\* the upstream service and is answered once, with status 420 and the message
\* that the server failed to determine the meter status.
C31_MeterFailureAnswered420 ==
    \A i \in DOMAIN requests :
        requests[i].isUnderCap = "error" =>
            /\ ~requests[i].dispatched
            /\ requests[i].attempts = 0
            /\ requests[i].pc = "closed"
            /\ requests[i].responses = 1
            /\ requests[i].statusCode = 420
            /\ requests[i].body = "error"
            /\ requests[i].errorMessage = MeterFailedMessage

\* Of two requests for a metered rule one was admitted and handed upstream,
\* the other lost the answer of the meter and was answered 420.
C31_Witness ==
    \E i, j \in DOMAIN requests :
        /\ requests[i].isUnderCap = "error"
        /\ requests[i].statusCode = 420
        /\ requests[i].errorMessage = MeterFailedMessage
        /\ requests[j].serverURLInfo = requests[i].serverURLInfo
        /\ requests[j].isUnderCap = "true"
        /\ requests[j].dispatched
        /\ errorProcessedRequests = 1

\* ---------------------------------------------------------------------------
\* The server with clients that send what is no HTTP request: the http server
\* emits "clientError" and processRequest is not called.
MaxClientErrors == 1

InitCounters ==
    /\ configuration \in {loadConfigurationFile(json) : json \in ConfigurationFiles}
    /\ requests = << >>
    /\ buckets = NoBuckets
    /\ now = 0
    /\ attemptedRequests = 0
    /\ validProcessedRequests = 0
    /\ errorProcessedRequests = 0
    /\ probe = [fn |-> "clientError", clientErrors |-> 0]

\* The listener of "clientError" that startServer sets.
ClientError ==
    /\ probe.fn = "clientError"
    /\ probe.clientErrors < MaxClientErrors
    /\ errorProcessedRequests' = errorProcessedRequests + 1
    /\ probe' = [probe EXCEPT !.clientErrors = @ + 1]
    /\ UNCHANGED <<configuration, requests, buckets, now, attemptedRequests,
                   validProcessedRequests>>

NextCounters == Next \/ ClientError

SpecCounters == InitCounters /\ [][NextCounters]_vars

\* C32: every request handed to processRequest is counted once in
\* attemptedRequests and in at most one of validProcessedRequests and
\* errorProcessedRequests, so that in every state
\* validProcessedRequests + errorProcessedRequests <= attemptedRequests.
C32_CountersBounded ==
    /\ attemptedRequests = Len(requests)
    /\ validProcessedRequests + errorProcessedRequests <= attemptedRequests

\* ---------------------------------------------------------------------------
\* C33: the promise that loadConfigurationFile returns settles: once the
\* callbacks of loadJsonFile are over it is resolved if the configuration is
\* valid and rejected if not, also for a file that cannot be read and for a
\* callback that throws.
C33_LoadPromiseSettles ==
    (probe.fn = "load" /\ probe.pc \notin {"loading", "validating"}) =>
        probe.promise \in {"resolved", "rejected"}

\* ---------------------------------------------------------------------------
\* The rate settings of a rule at load: rateLimit and rateLimitPeriod are
\* left out or set to a whole number, negative ones included.
StudyRateValues == (0 - 2)..3

StudyRateEntries ==
    {[JsonInfoRule EXCEPT !.has = {"url"} \cup has, !.rateLimit = c, !.rateLimitPeriod = p] :
        has \in SUBSET {"rateLimit", "rateLimitPeriod"},
        c \in StudyRateValues, p \in StudyRateValues}

InitRates ==
    /\ configuration = DefaultConfiguration
    /\ requests = << >>
    /\ buckets = NoBuckets
    /\ now = 0
    /\ attemptedRequests = 0
    /\ validProcessedRequests = 0
    /\ errorProcessedRequests = 0
    /\ probe \in {[fn |-> "rates", json |-> json, pc |-> "read"] : json \in StudyRateEntries}

\* The loop body of loadConfigurationFile over the one entry of serverUrls.
LoadRates ==
    /\ probe.fn = "rates" /\ probe.pc = "read"
    /\ configuration' = [configuration EXCEPT !.serverUrls = << loadServerUrl(probe.json) >>]
    /\ probe' = [probe EXCEPT !.pc = "loaded"]
    /\ UnchangedServer

NextRates == LoadRates

SpecRates == InitRates /\ [][NextRates]_vars

\* C34: a loaded rule has useRateMeter exactly when the rateLimit and the
\* rateLimitPeriod of the file are both set and positive; rateLimit and
\* rateLimitPeriod are 0 when left out or negative; with useRateMeter
\* rate = rateLimit / rateLimitPeriod / 60 and ratePeriodSeconds = 1 / rate,
\* without it both are 0.
C34_RateDerivation ==
    (probe.fn = "rates" /\ probe.pc = "loaded") =>
        LET rule == configuration.serverUrls[1]
            limit == IF "rateLimit" \in probe.json.has /\ probe.json.rateLimit > 0
                     THEN probe.json.rateLimit ELSE 0
            period == IF "rateLimitPeriod" \in probe.json.has /\ probe.json.rateLimitPeriod > 0
                      THEN probe.json.rateLimitPeriod ELSE 0
        IN  /\ rule.rateLimit = limit
            /\ rule.rateLimitPeriod = period
            /\ rule.useRateMeter <=> (limit > 0 /\ period > 0)
            /\ rule.useRateMeter =>
                  /\ rule.rate.den > 0
                  /\ rule.rate.num * period * 60 = limit * rule.rate.den
                  /\ rule.ratePeriodSeconds.den > 0
                  /\ rule.ratePeriodSeconds.num * rule.rate.num
                         = rule.ratePeriodSeconds.den * rule.rate.den
            /\ ~rule.useRateMeter =>
                  rule.rate.num = 0 /\ rule.ratePeriodSeconds.num = 0

\* Three requests in two minutes: rate 3 / 120 a second, ratePeriodSeconds 40.
C34_Witness ==
    /\ probe.fn = "rates" /\ probe.pc = "loaded"
    /\ probe.json.has = {"url", "rateLimit", "rateLimitPeriod"}
    /\ probe.json.rateLimit = 3 /\ probe.json.rateLimitPeriod = 2
    /\ configuration.serverUrls[1].useRateMeter
    /\ configuration.serverUrls[1].rate = [num |-> 3, den |-> 120]
    /\ configuration.serverUrls[1].ratePeriodSeconds = [num |-> 120, den |-> 3]

\* ---------------------------------------------------------------------------
\* The credentials of a rule at load: each of username, password, clientId,
\* clientSecret and oauth2Endpoint is left out, blank or set.
CredentialProperties == {"username", "password", "clientId", "clientSecret", "oauth2Endpoint"}

StudyCredentialValues == {UNDEFINED, <<" ">>, <<"secret">>}

StudyCredentialEntries ==
    {[username |-> u, password |-> p, clientId |-> c, clientSecret |-> s, oauth2Endpoint |-> o] :
        u \in StudyCredentialValues, p \in StudyCredentialValues,
        c \in StudyCredentialValues, s \in StudyCredentialValues,
        o \in {UNDEFINED, <<"https">> \o SchemeMark \o MapsHost \o <<"/", "oauth2">>}}

isPropertySet(object, key) == object[key] # UNDEFINED /\ Len(trim(object[key])) > 0

\* The entry as the loader reads it: the properties that are set.
credentialsOf(entry) ==
    [JsonInfoRule EXCEPT !.has = {"url", "matchAll"}
                                 \cup {key \in CredentialProperties : isPropertySet(entry, key)}]

InitLogins ==
    /\ configuration = DefaultConfiguration
    /\ requests = << >>
    /\ buckets = NoBuckets
    /\ now = 0
    /\ attemptedRequests = 0
    /\ validProcessedRequests = 0
    /\ errorProcessedRequests = 0
    /\ probe \in {[fn |-> "logins", entry |-> entry, pc |-> "read"] :
                     entry \in StudyCredentialEntries}

\* The loop body of loadConfigurationFile over the one entry of serverUrls.
LoadLogins ==
    /\ probe.fn = "logins" /\ probe.pc = "read"
    /\ configuration' = [configuration EXCEPT
                            !.serverUrls = << loadServerUrl(credentialsOf(probe.entry)) >>]
    /\ probe' = [probe EXCEPT !.pc = "loaded"]
    /\ UnchangedServer

NextLogins == LoadLogins

SpecLogins == InitLogins /\ [][NextLogins]_vars

\* C35: a loaded rule has isAppLogin exactly when clientId and clientSecret
\* are both non-empty and isUserLogin exactly when username and password are
\* both non-empty; a pair of which one half only is given leaves an error
\* message on the rule, which makes the configuration invalid.
C35_LoginFlags ==
    (probe.fn = "logins" /\ probe.pc = "loaded") =>
        LET rule == configuration.serverUrls[1]
            set(key) == isPropertySet(probe.entry, key)
        IN  /\ rule.isAppLogin <=> (set("clientId") /\ set("clientSecret"))
            /\ rule.isUserLogin <=> (set("username") /\ set("password"))
            /\ (set("clientId") # set("clientSecret")) => rule.errorMessage # EMPTY
            /\ (set("username") # set("password")) => rule.errorMessage # EMPTY

\* ---------------------------------------------------------------------------
\* The allowed referrers from the file to the requests: the property is left
\* out (undefined), null or an array, empty or not.
MaxReferrerChecks == 3

StudyReferrerProperties ==
    {[kind |-> "undefined", list |-> << >>], [kind |-> "null", list |-> << >>]}
    \cup {[kind |-> "array", list |-> list] :
             list \in {<< >>, << STAR >>, JsonSomeReferrers, JsonSomeReferrers \o << STAR >>}}

StudyReferrerHeaders ==
    {NULL,
     <<"https">> \o SchemeMark \o CustomerHost \o <<"/", "app">>,
     <<"http">> \o SchemeMark \o OtherHost \o <<"/">>}

\* entries tells what configuration.allowedReferrers holds: "strings", the
\* ['*'] of the defaults, or "parsed", the objects the loader builds.
InitAnyReferrer ==
    /\ configuration = DefaultConfiguration
    /\ requests = << >>
    /\ buckets = NoBuckets
    /\ now = 0
    /\ attemptedRequests = 0
    /\ validProcessedRequests = 0
    /\ errorProcessedRequests = 0
    /\ probe \in {[fn |-> "referrers", allowedReferrers |-> property, pc |-> "loading",
                   entries |-> "strings", validated |-> << >>] :
                     property \in StudyReferrerProperties}

\* The callback of loadJsonFile at allowedReferrers: null is skipped,
\* undefined passes "!== null" and indexOf throws a TypeError on it, an array
\* is copied entry by entry and "*" among the entries sets allowAnyReferrer.
LoadAllowedReferrers ==
    /\ probe.fn = "referrers" /\ probe.pc = "loading"
    /\ configuration' =
           IF probe.allowedReferrers.kind = "array"
           THEN [configuration EXCEPT
                    !.allowedReferrers =
                        [i \in 1..Len(probe.allowedReferrers.list) |->
                            loadAllowedReferrer(probe.allowedReferrers.list[i])],
                    !.allowAnyReferrer =
                        IF \E i \in 1..Len(probe.allowedReferrers.list) :
                               probe.allowedReferrers.list[i] = STAR
                        THEN TRUE ELSE @]
           ELSE configuration
    /\ probe' = [probe EXCEPT
                    !.pc = IF probe.allowedReferrers.kind = "undefined"
                           THEN "thrown" ELSE "validating",
                    !.entries = IF probe.allowedReferrers.kind = "array"
                                THEN "parsed" ELSE @]
    /\ UnchangedServer

\* isConfigurationValid: allowedReferrers that is null or empty becomes ['*'];
\* allowAnyReferrer is not written. The server is started after it.
DefaultAllowedReferrers ==
    /\ probe.fn = "referrers" /\ probe.pc = "validating"
    /\ configuration' =
           IF Len(configuration.allowedReferrers) = 0
           THEN [configuration EXCEPT !.allowedReferrers = << STAR >>]
           ELSE configuration
    /\ probe' = [probe EXCEPT
                    !.pc = "serving",
                    !.entries = IF Len(configuration.allowedReferrers) = 0
                                THEN "strings" ELSE @]
    /\ UnchangedServer

\* The referrer processRequest hands to the matcher: "*" for a request
\* without the header.
referrerOfHeader(referer) ==
    IF referer = NULL \/ Len(referer) < 1 THEN STAR ELSE trim(toLowerCase(referer))

\* processRequest validates the referrer of a request. The matcher of the
\* specification reads protocol, hostname and path of the entries; what it
\* answers over entries that are strings is not given, so either answer is
\* taken.
ValidateRequestReferrer(referer) ==
    /\ probe.fn = "referrers" /\ probe.pc = "serving"
    /\ Len(probe.validated) < MaxReferrerChecks
    /\ \E validated \in
           IF configuration.allowAnyReferrer \/ probe.entries = "parsed"
           THEN {validatedReferrerFromReferrer(referrerOfHeader(referer),
                                               configuration.allowedReferrers,
                                               configuration.allowAnyReferrer)}
           ELSE {STAR, NULL} :
           probe' = [probe EXCEPT
                        !.validated = Append(@, [referer |-> referer, key |-> validated])]
    /\ UNCHANGED configuration
    /\ UnchangedServer

NextAnyReferrer ==
    \/ LoadAllowedReferrers
    \/ DefaultAllowedReferrers
    \/ \E referer \in StudyReferrerHeaders : ValidateRequestReferrer(referer)

SpecAnyReferrer == InitAnyReferrer /\ [][NextAnyReferrer]_vars

\* C36: with allowedReferrers left out or empty the server runs with
\* allowAnyReferrer set, and the referrer of every request, a missing one
\* included, validates to "*".
C36_MissingReferrersAcceptAny ==
    (/\ probe.fn = "referrers"
     /\ \/ probe.allowedReferrers.kind \in {"undefined", "null"}
        \/ probe.allowedReferrers.list = << >>
     /\ probe.pc = "serving") =>
        /\ configuration.allowAnyReferrer
        /\ \A i \in DOMAIN probe.validated : probe.validated[i].key = STAR

\* ---------------------------------------------------------------------------
\* The end of the process: SIGINT, an uncaught exception and the "exit" event
\* all run exitHandler.
LOGLEVEL == [ALL |-> 9, INFO |-> 5, WARN |-> 4, ERROR |-> 3, NONE |-> 0]

StopViaSigint == "Stopping server via app terminated via SIGINT"
StopViaException == "Stopping server via uncaught exception"
StopViaExit == "Stopping server via normal exit"

\* pc: "loading" until startServer has run, "running", "exiting" from
\* process.exit() to the end of the "exit" listeners, "exited". rateMeter and
\* proxyServer tell whether the variable holds an object; listening is the
\* state of httpServer, stops counts the calls of rateMeter.stop and log is
\* what logEventImmediately wrote.
InitShutdown ==
    /\ configuration = DefaultConfiguration
    /\ requests = << >>
    /\ buckets = NoBuckets
    /\ now = 0
    /\ attemptedRequests = 0
    /\ validProcessedRequests = 0
    /\ errorProcessedRequests = 0
    /\ probe \in {[fn |-> "shutdown", pc |-> "loading", logLevel |-> LOGLEVEL[level],
                   logFile |-> file, logToConsole |-> console,
                   rateMeter |-> FALSE, proxyServer |-> FALSE, proxyClosed |-> FALSE,
                   listening |-> FALSE, started |-> FALSE, stops |-> 0, log |-> << >>,
                   signal |-> "none", listeningAtExit |-> FALSE] :
                     level \in DOMAIN LOGLEVEL, file \in BOOLEAN, console \in BOOLEAN}

\* QuickLogger.logEventImmediately: the message is written when its level is
\* at least the configured one, to the log file if there is one and to the
\* console if asked for.
logEventImmediately(p, levelToLog, message) ==
    IF levelToLog >= p.logLevel /\ (p.logFile \/ p.logToConsole)
    THEN [p EXCEPT !.log = Append(@, message)]
    ELSE p

\* exitHandler up to "if (options.exit)": the message, then the rate meter
\* is stopped if there is one and the variable is cleared.
exitHandlerStopping(p) ==
    IF p.rateMeter THEN [p EXCEPT !.rateMeter = FALSE, !.stops = @ + 1] ELSE p

\* exitHandler: with options.exit the proxy server is closed, which is the
\* http-proxy object and not httpServer, and process.exit() is called.
exitHandler(p, exit, message) ==
    IF exit
    THEN [exitHandlerStopping(logEventImmediately(p, LOGLEVEL.INFO, message)) EXCEPT
             !.proxyClosed = p.proxyServer, !.pc = "exiting"]
    ELSE exitHandlerStopping(logEventImmediately(p, LOGLEVEL.INFO, message))

\* startServer: the rate meter is made and started, httpServer and
\* proxyServer are made and httpServer listens.
StartListening ==
    /\ probe.fn = "shutdown" /\ probe.pc = "loading"
    /\ probe' = [probe EXCEPT !.pc = "running", !.rateMeter = TRUE, !.proxyServer = TRUE,
                              !.listening = TRUE, !.started = TRUE]
    /\ UNCHANGED configuration
    /\ UnchangedServer

\* process.on('SIGINT', exitHandler.bind(null, {exit: true, ...}))
Sigint ==
    /\ probe.fn = "shutdown" /\ probe.pc \in {"loading", "running"}
    /\ probe' = [exitHandler(probe, TRUE, StopViaSigint) EXCEPT !.signal = "SIGINT"]
    /\ UNCHANGED configuration
    /\ UnchangedServer

\* process.on('uncaughtException', exitHandler.bind(null, {exit: true, ...}))
UncaughtException ==
    /\ probe.fn = "shutdown" /\ probe.pc \in {"loading", "running"}
    /\ probe' = [exitHandler(probe, TRUE, StopViaException) EXCEPT
                    !.signal = "uncaughtException"]
    /\ UNCHANGED configuration
    /\ UnchangedServer

\* process.exit() emits "exit", whose listener is exitHandler without
\* options.exit, and the process ends with httpServer as it then is.
ProcessExit ==
    /\ probe.fn = "shutdown" /\ probe.pc = "exiting"
    /\ probe' = [exitHandler(probe, FALSE, StopViaExit) EXCEPT
                    !.pc = "exited", !.listeningAtExit = probe.listening]
    /\ UNCHANGED configuration
    /\ UnchangedServer

NextShutdown ==
    \/ StartListening
    \/ Sigint
    \/ UncaughtException
    \/ ProcessExit

SpecShutdown == InitShutdown /\ [][NextShutdown]_vars

\* C37: when the process has ended after SIGINT, the rate meter of a started
\* server was stopped exactly once, the HTTP listener was stopped before the
\* process ended, and with a log that takes INFO messages the stop message
\* of SIGINT was logged.
C37_GracefulShutdown ==
    (probe.fn = "shutdown" /\ probe.signal = "SIGINT" /\ probe.pc = "exited") =>
        /\ probe.stops = (IF probe.started THEN 1 ELSE 0)
        /\ ~probe.listeningAtExit
        /\ (probe.logLevel >= LOGLEVEL.INFO /\ (probe.logFile \/ probe.logToConsole)) =>
              \E i \in DOMAIN probe.log : probe.log[i] = StopViaSigint

\* ---------------------------------------------------------------------------
\* testDomainsMatch over domain names of up to MaxSegments segments.
MaxSegments == 3

PatternSegments == {"*", "www", "WWW", "geo"}
CandidateSegments == {"www", "WWW", "geo", "GEO"}

segmentLists(segments) == UNION {[1..n -> segments] : n \in 1..MaxSegments}

\* The domain name of the segments: they are joined with ".".
RECURSIVE domainOf(_)
domainOf(segments) ==
    IF Len(segments) = 1 THEN segments
    ELSE <<Head(segments)>> \o Dot \o domainOf(Tail(segments))

InitDomains ==
    /\ configuration = DefaultConfiguration
    /\ requests = << >>
    /\ buckets = NoBuckets
    /\ now = 0
    /\ attemptedRequests = 0
    /\ validProcessedRequests = 0
    /\ errorProcessedRequests = 0
    /\ probe \in {[fn |-> "testDomainsMatch", pattern |-> pattern, candidate |-> candidate,
                   pc |-> "call", result |-> FALSE] :
                     pattern \in segmentLists(PatternSegments),
                     candidate \in segmentLists(CandidateSegments)}

TestDomainsMatch ==
    /\ probe.fn = "testDomainsMatch" /\ probe.pc = "call"
    /\ probe' = [probe EXCEPT
                    !.pc = "done",
                    !.result = testDomainsMatch(domainOf(probe.pattern),
                                                domainOf(probe.candidate))]
    /\ UNCHANGED configuration
    /\ UnchangedServer

NextDomains == TestDomainsMatch

SpecDomains == InitDomains /\ [][NextDomains]_vars

\* Two segments that differ at most in the case of their letters.
sameSegment(a, b) ==
    \/ a = b
    \/ {a, b} = {"www", "WWW"}
    \/ {a, b} = {"geo", "GEO"}

\* C38: testDomainsMatch(pattern, candidate) is true exactly when the two
\* names have the same number of segments and every segment of the pattern
\* is "*" or the segment of the candidate at its place, the case of the
\* letters aside.
C38_DomainsMatchBySegments ==
    (probe.fn = "testDomainsMatch" /\ probe.pc = "done") =>
        (probe.result <=>
            /\ Len(probe.pattern) = Len(probe.candidate)
            /\ \A i \in 1..Len(probe.pattern) :
                  \/ i > Len(probe.candidate)
                  \/ probe.pattern[i] = "*"
                  \/ sameSegment(probe.pattern[i], probe.candidate[i]))

\* "*.www.geo" matches "GEO.WWW.geo".
C38_Witness ==
    /\ probe.fn = "testDomainsMatch" /\ probe.pc = "done"
    /\ probe.pattern = <<"*", "www", "geo">>
    /\ probe.candidate = <<"GEO", "WWW", "geo">>
    /\ probe.result

\* ---------------------------------------------------------------------------
\* The response of the upstream service on its way to the client: status and
\* headers; a header the response does not have is undefined.
WmsXml == <<"application", "/", "vnd.ogc.wms_xml">>
TextXml == <<"text", "/", "xml">>

StudyContentTypes ==
    {UNDEFINED,
     WmsXml,
     WmsXml \o <<";", " ", "charset=utf-8">>,
     <<"multipart", "/", "mixed", ";", " ">> \o WmsXml,
     WmsXml \o <<",", " ">> \o WmsXml,
     <<"APPLICATION", "/", "VND.OGC.WMS_XML">>,
     <<"application", "/", "json">>,
     TextXml}

StudyResponses ==
    {[statusCode |-> statusCode,
      headers |-> [name \in {"content-type", "content-length", "server"} |->
                      CASE name = "content-type" -> contentType
                        [] name = "content-length" -> contentLength
                        [] OTHER -> server]] :
        statusCode \in {200, 404, 498},
        contentType \in StudyContentTypes,
        contentLength \in {UNDEFINED, <<"512">>},
        server \in {UNDEFINED, <<"GeoServer">>}}

\* The rewrite that puts text/xml in the place of the whole value.
proxyResponseRewriteWhole(proxyRes) ==
    IF proxyRes.headers["content-type"] # UNDEFINED
       /\ indexOf(proxyRes.headers["content-type"], WmsXml) >= 0
    THEN [proxyRes EXCEPT !.headers["content-type"] = TextXml]
    ELSE proxyRes

\* proxyResponseRewrite: String.replace with a string pattern replaces the
\* first occurrence.
proxyResponseRewrite(proxyRes) ==
    IF proxyRes.headers["content-type"] # UNDEFINED
    THEN [proxyRes EXCEPT !.headers["content-type"] = replace(@, WmsXml, TextXml)]
    ELSE proxyRes

InitRewrite ==
    /\ configuration = DefaultConfiguration
    /\ requests = << >>
    /\ buckets = NoBuckets
    /\ now = 0
    /\ attemptedRequests = 0
    /\ validProcessedRequests = 0
    /\ errorProcessedRequests = 0
    /\ probe \in {[fn |-> "proxyRes", proxyRes |-> response, pc |-> "received",
                   forwarded |-> response] : response \in StudyResponses}

\* http-proxy emits "proxyRes" and then writes the status and the headers of
\* proxyRes to the client.
ProxyRes ==
    /\ probe.fn = "proxyRes" /\ probe.pc = "received"
    /\ probe' = [probe EXCEPT !.pc = "forwarded",
                              !.forwarded = proxyResponseRewrite(probe.proxyRes)]
    /\ UNCHANGED configuration
    /\ UnchangedServer

NextRewrite == ProxyRes

SpecRewrite == InitRewrite /\ [][NextRewrite]_vars

\* The places of a value where the WMS content type stands.
wmsPlaces(value) ==
    {i \in 1..Len(value) :
        i + Len(WmsXml) - 1 <= Len(value) /\ SubSeq(value, i, i + Len(WmsXml) - 1) = WmsXml}

firstWmsPlace(value) == CHOOSE i \in wmsPlaces(value) : \A j \in wmsPlaces(value) : i <= j

\* C39: the client gets the status of the upstream response and every header
\* but Content-Type as they came; a Content-Type that holds
\* application/vnd.ogc.wms_xml comes with text/xml in the place of it, and
\* any other Content-Type, a missing one too, comes as it was.
C39_OnlyContentTypeRewritten ==
    (probe.fn = "proxyRes" /\ probe.pc = "forwarded") =>
        LET sent == probe.proxyRes.headers["content-type"]
            got == probe.forwarded.headers["content-type"]
        IN  /\ probe.forwarded.statusCode = probe.proxyRes.statusCode
            /\ DOMAIN probe.forwarded.headers = DOMAIN probe.proxyRes.headers
            /\ \A name \in DOMAIN probe.proxyRes.headers \ {"content-type"} :
                  probe.forwarded.headers[name] = probe.proxyRes.headers[name]
            /\ IF sent # UNDEFINED /\ wmsPlaces(sent) # {}
               THEN got = SubSeq(sent, 1, firstWmsPlace(sent) - 1) \o TextXml
                          \o SubSeq(sent, firstWmsPlace(sent) + Len(WmsXml), Len(sent))
               ELSE got = sent

\* A 200 with "application/vnd.ogc.wms_xml; charset=utf-8" goes out as
\* "text/xml; charset=utf-8" with its other headers.
C39_Witness ==
    /\ probe.fn = "proxyRes" /\ probe.pc = "forwarded"
    /\ probe.proxyRes.statusCode = 200
    /\ probe.proxyRes.headers["content-type"] = WmsXml \o <<";", " ", "charset=utf-8">>
    /\ probe.proxyRes.headers["server"] = <<"GeoServer">>
    /\ probe.forwarded.headers["content-type"] = TextXml \o <<";", " ", "charset=utf-8">>
    /\ probe.forwarded.headers["server"] = <<"GeoServer">>

\* ---------------------------------------------------------------------------
\* ProjectUtilities.endsWith over strings of up to MaxSubjectLength characters.
MaxSubjectLength == 3

StudyCharacters == {"www", "WWW", "geo"}

StudyStrings == UNION {[1..n -> StudyCharacters] : n \in 0..MaxSubjectLength}

\* indexOf starts its search at startIndex, or at 0 when that is negative,
\* and answers -1 when it finds nothing.
endsWith(subject, needle) ==
    indexOfFrom(toLowerCase(subject), toLowerCase(needle), Len(subject) - Len(needle))
        = Len(subject) - Len(needle)

InitEndsWith ==
    /\ configuration = DefaultConfiguration
    /\ requests = << >>
    /\ buckets = NoBuckets
    /\ now = 0
    /\ attemptedRequests = 0
    /\ validProcessedRequests = 0
    /\ errorProcessedRequests = 0
    /\ probe \in {[fn |-> "endsWith", subject |-> subject, needle |-> needle,
                   pc |-> "call", result |-> FALSE] :
                     subject \in StudyStrings, needle \in StudyStrings}

EndsWith ==
    /\ probe.fn = "endsWith" /\ probe.pc = "call"
    /\ probe' = [probe EXCEPT !.pc = "done",
                              !.result = endsWith(probe.subject, probe.needle)]
    /\ UNCHANGED configuration
    /\ UnchangedServer

NextEndsWith == EndsWith

SpecEndsWith == InitEndsWith /\ [][NextEndsWith]_vars

\* C40: endsWith(subject, needle) is true exactly when the needle is no
\* longer than the subject and the last characters of the subject, as many
\* as the needle has, are those of the needle, the case of the letters
\* aside; so it is false for a longer needle and true for the empty one.
C40_EndsWithSuffix ==
    (probe.fn = "endsWith" /\ probe.pc = "done") =>
        (probe.result <=>
            /\ Len(probe.needle) <= Len(probe.subject)
            /\ \A i \in 1..Len(probe.needle) :
                  \/ Len(probe.needle) > Len(probe.subject)
                  \/ sameSegment(probe.subject[Len(probe.subject) - Len(probe.needle) + i],
                                 probe.needle[i]))

====
